---- MODULE Spec2Model ----
(***************************************************************************)
(* Memory coordination engine of MIRIX: the temporary message accumulator  *)
(* (mirix/agent/temporary_message_accumulator.py), the upload manager      *)
(* (mirix/agent/upload_manager.py), the memorizing branch of               *)
(* AgentWrapper.send_message (mirix/agent/agent_wrapper.py) and the        *)
(* per-type message queue of the desktop agent (agent.py).                 *)
(*                                                                         *)
(* Time is kept on the scale of the start times.  The start time of a      *)
(* placeholder is the arrival index of its observation (start times grow   *)
(* from one add_message to the next); once it lies more than               *)
(* upload_timeout_seconds back it is kept as LongAgo.  Tick lets time pass  *)
(* until one more tracked start time, and with it every older one, is      *)
(* LongAgo.  The waits of wait_for_upload (60 s, 90 s) are longer than      *)
(* upload_timeout_seconds: a wait that ends with TimeoutError has seen the *)
(* start times tracked before it become LongAgo.                           *)
(***************************************************************************)
EXTENDS Integers, Sequences, FiniteSets, TLC

(* ------------------------------ bounds --------------------------------- *)
MaxObs == 3
MaxImgs == 2
MaxUploads == 3
MaxCleaners == 1
MaxRequests == 4
MaxThreads == 3
MaxCallers == 2
MaxFlushes == 3
MaxAgentTypes == 2
MaxCreateTime == 2
MaxValueLen == 3
MaxContentLen == 1
MaxItems == 3
MaxLimit == 2
MaxMessages == 2
MaxTurns == 2
MaxPrompts == 2
MaxJobs == 2
MaxTypes == 2
MaxLockThreads == 2
\* the items that the run of the update tools stores
MaxStored == 2
\* the conversation turns recorded while flushes run
MaxSnippets == 3
MaxQueueLength == 1
MaxSenders == 1
\* MAXIMUM_NUM_IMAGES_IN_CLOUD comes from mirix.agent.app_constants
MAXIMUM_NUM_IMAGES_IN_CLOUD == 2
\* the temporary_message_limit that the accumulator is constructed with; its
\* default comes from mirix.agent.app_constants
TEMPORARY_MESSAGE_LIMIT == 2

(* ------------------------- program constants --------------------------- *)
upload_timeout_seconds == 10
\* max_retries of _upload_worker
max_retries == 3
NumUploadWorkers == 4
cleanup_threshold == 100

VARIABLES
    needs_upload,          \* model_name in GEMINI_MODELS
    temporary_messages,    \* the buffer: sequence of entries
    upload_start_times,    \* placeholder -> start time of its upload
    upload_results,        \* UploadManager._upload_results: upload -> "ok" | "err"
    stale_results,         \* results left in the table by uploads absorbed earlier
    upload_queue,          \* UploadManager._upload_queue and the jobs in progress
    file_cleaners,         \* _cleanup_file_after_upload threads
    pc,                    \* position of the thread that calls send_message
    call,                  \* locals of the send_message call in progress
    janitor,               \* locals of a cleanup_timed_out_uploads call in progress
    next_obs,              \* observations added so far
    next_upload,           \* uploads submitted so far
    outcomes,              \* history: what happened to each placeholder
    message_queue,         \* agent.py: self.message_queue, in insertion order
    qpc,                   \* position of each thread in send_message_in_queue
    qcall,                 \* locals of each send_message_in_queue call
    next_uuid,             \* requests submitted so far
    completed,             \* history: requests whose client call has returned
    overtaken,             \* history: pairs (a, b), b started while a was unfinished
    flush_pc,              \* position of each thread inside absorb_content_into_memory
    flush_of,              \* the flush that each thread has cut from the buffer
    next_flush,            \* flushes cut from the buffer so far
    pool_tasks,            \* ThreadPoolExecutor: submitted calls that have not begun
    agent_queue,           \* MessageQueue: requests of each agent type, in order
    processed,             \* history: the flushes each agent type has processed
    cloud_file_mapping,    \* CloudFileMapping rows: cloud_file_id -> status
    upload_state,          \* what became of each upload job
    flushed_uploads,       \* history: uploads whose observation a flush has absorbed
    most_recent_images,    \* what the last get_recent_images_for_chat returned
    waiters,               \* the wait_for_upload call on each placeholder
    blob_store,            \* the names that google_client.files.list() would return
    startup,               \* how _initialize_gemini_components ended
    mappings_at_startup,   \* history: the cloud file ids in the Store when it began
    uri_to_create_time,    \* uri -> create_time of the images tracked in the cloud
    deleting,              \* the file names handed to delete_files threads
    lock_holder,           \* the thread inside _temporary_messages_lock, if any
    last_clear,            \* history: the last call of clear_old_screenshots
    core_memory,           \* agent_state.memory: label -> value of the block
    last_tool,             \* the last core memory tool call, its arguments and its end
    tables,                \* manager -> the rows of its table, in order of insertion
    next_item,             \* rows inserted so far
    deleted_ids,           \* history: the ids that a delete by id has removed
    last_search,           \* history: the last search and what it returned
    last_delete,           \* history: the last delete by id and how it ended
    last_replace,          \* history: the last replace or update of a memory and how it ended
    temporary_user_messages,  \* the batches of conversation turns kept by add_user_conversation
    last_chat,                \* the reply and the outcome of the last chat send_message
    fan_pc,                   \* where _send_to_memory_agents_separately stands
    fan_prompt,               \* the message of the flush
    futures,                  \* the state of the pool task of each memory agent
    sent,                     \* the message each send_message_in_queue call got
    collected,                \* the agents whose future.result() was taken
    google_client,            \* whether the Gemini client is initialized
    memory_model_name,        \* the memory model of the agent wrapper
    llm_config,               \* the LLM config of each agent record
    last_set,                 \* the arguments and the outcome of the last set_memory_model
    next_job,                 \* the number of jobs taken from the upload queue
    worker,                   \* where the upload worker stands in its job
    attempts,                 \* per job, the upload calls made for each file
    results,                  \* per job, the results stored under its uuid
    last_trigger,             \* the arguments and the requests of the last trigger_memory_update
    reflexion_pc,             \* the next dispatch of reflextion_on_memory, 0 when it is not running
    calls_running,            \* the dispatches whose send_message_in_queue call has not ended
    reflexion_results,        \* the result of each dispatch of the run
    messages_lock,            \* the thread that holds _temporary_messages_lock, 0 for none
    running_op,               \* per thread, the accumulator operation it runs and its position
    network_call,             \* per thread, the upload or dispatch it is waiting for
    conversation_pc,       \* where absorb_content_into_memory stands with the conversation
    user_message_added,    \* the local of absorb_content_into_memory
    included,              \* history: in how many prompts each snippet has been put
    next_snippet           \* the snippets recorded so far

AccVars == << needs_upload, temporary_messages, upload_start_times, upload_results,
              stale_results, upload_queue, file_cleaners,
              pc, call, janitor, next_obs, next_upload, outcomes >>

QueueVars == << message_queue, qpc, qcall, next_uuid, completed, overtaken >>

\* absorb_content_into_memory called by several threads
DispatchVars == << flush_pc, flush_of, next_flush, pool_tasks, agent_queue, processed >>

\* the cloud file mappings of the uploaded images
MappingVars == << cloud_file_mapping, upload_state, flushed_uploads >>

\* the result of get_recent_images_for_chat
ChatVars == << most_recent_images >>

\* the wait_for_upload calls in progress
WaitVars == << waiters >>

\* the blob provider and the start of the agent wrapper
StartupVars == << blob_store, startup, mappings_at_startup >>

\* the images tracked in the cloud
CloudVars == << uri_to_create_time, deleting, lock_holder, last_clear >>

\* the core memory of an agent
CoreVars == << core_memory, last_tool >>

\* the tables of the memory managers
StoreVars == << tables, next_item, deleted_ids, last_search, last_delete,
                last_replace >>

\* the chat agent's replies
ReplyVars == << temporary_user_messages, last_chat >>

\* one flush sent to the memory agents separately
FanoutVars == << fan_pc, fan_prompt, futures, sent, collected >>

\* the model of the memory agents
ModelVars == << google_client, memory_model_name, llm_config, last_set >>

\* the upload worker and its retries
RetryVars == << next_job, worker, attempts, results >>

\* the requests of trigger_memory_update
TriggerVars == << last_trigger >>

\* reflextion_on_memory
ReflexionVars == << reflexion_pc, calls_running, reflexion_results >>

\* the accumulator's lock
LockVars == << messages_lock, running_op, network_call >>

\* the conversation turns on their way into the prompts of the flushes
ConversationVars == << conversation_pc, user_message_added, included, next_snippet >>

ExtVars == << DispatchVars, MappingVars, ChatVars, WaitVars, StartupVars,
              CloudVars, CoreVars, StoreVars, ReplyVars, FanoutVars, ModelVars,
              RetryVars, TriggerVars, ReflexionVars, LockVars, ConversationVars >>

OutsideAccumulator == << QueueVars, ExtVars >>
OutsideQueue == << AccVars, ExtVars >>
OutsideDispatch == << AccVars, QueueVars, MappingVars, ChatVars, WaitVars,
                      StartupVars, CloudVars, CoreVars, StoreVars, ReplyVars,
                      FanoutVars, ModelVars, RetryVars, TriggerVars,
                      ReflexionVars, LockVars, ConversationVars >>
OutsideMapping == << AccVars, QueueVars, DispatchVars, ChatVars, WaitVars,
                     StartupVars, CloudVars, CoreVars, StoreVars, ReplyVars,
                     FanoutVars, ModelVars, RetryVars, TriggerVars,
                     ReflexionVars, LockVars, ConversationVars >>
OutsideChat == << QueueVars, DispatchVars, MappingVars, WaitVars, StartupVars,
                  CloudVars, CoreVars, StoreVars, ReplyVars, FanoutVars,
                  ModelVars, RetryVars, TriggerVars, ReflexionVars, LockVars,
                  ConversationVars >>
OutsideWait == << QueueVars, DispatchVars, MappingVars, ChatVars, StartupVars,
                  CloudVars, CoreVars, StoreVars, ReplyVars, FanoutVars,
                  ModelVars, RetryVars, TriggerVars, ReflexionVars, LockVars,
                  ConversationVars >>
OutsideStartup == << AccVars, QueueVars, DispatchVars, ChatVars, WaitVars,
                     CloudVars, CoreVars, StoreVars, ReplyVars, FanoutVars,
                     ModelVars, RetryVars, TriggerVars, ReflexionVars,
                     LockVars, ConversationVars >>
OutsideCloud == << AccVars, QueueVars, DispatchVars, MappingVars, ChatVars,
                   WaitVars, StartupVars, CoreVars, StoreVars, ReplyVars,
                   FanoutVars, ModelVars, RetryVars, TriggerVars,
                   ReflexionVars, LockVars, ConversationVars >>
OutsideCore == << AccVars, QueueVars, DispatchVars, MappingVars, ChatVars,
                  WaitVars, StartupVars, CloudVars, StoreVars, ReplyVars,
                  FanoutVars, ModelVars, RetryVars, TriggerVars, ReflexionVars,
                  LockVars, ConversationVars >>
OutsideStore == << AccVars, QueueVars, DispatchVars, MappingVars, ChatVars,
                   WaitVars, StartupVars, CloudVars, CoreVars, ReplyVars,
                   FanoutVars, ModelVars, RetryVars, TriggerVars,
                   ReflexionVars, LockVars, ConversationVars >>
OutsideReply == << QueueVars, DispatchVars, MappingVars, ChatVars, WaitVars,
                   StartupVars, CloudVars, CoreVars, StoreVars, FanoutVars,
                   ModelVars, RetryVars, TriggerVars, ReflexionVars, LockVars,
                   ConversationVars >>
OutsideFanout == << AccVars, QueueVars, DispatchVars, MappingVars, ChatVars,
                    WaitVars, StartupVars, CloudVars, CoreVars, StoreVars,
                    ReplyVars, ModelVars, RetryVars, TriggerVars,
                    ReflexionVars, LockVars, ConversationVars >>
OutsideModel == << AccVars, QueueVars, DispatchVars, MappingVars, ChatVars,
                   WaitVars, StartupVars, CloudVars, CoreVars, StoreVars,
                   ReplyVars, FanoutVars, RetryVars, TriggerVars,
                   ReflexionVars, LockVars, ConversationVars >>
OutsideRetry == << AccVars, QueueVars, DispatchVars, MappingVars, ChatVars,
                   WaitVars, StartupVars, CloudVars, CoreVars, StoreVars,
                   ReplyVars, FanoutVars, ModelVars, TriggerVars,
                   ReflexionVars, LockVars, ConversationVars >>
OutsideTrigger == << AccVars, QueueVars, DispatchVars, MappingVars, ChatVars,
                     WaitVars, StartupVars, CloudVars, CoreVars, StoreVars,
                     ReplyVars, FanoutVars, ModelVars, RetryVars,
                     ReflexionVars, LockVars, ConversationVars >>
OutsideReflexion == << AccVars, QueueVars, DispatchVars, MappingVars, ChatVars,
                       WaitVars, StartupVars, CloudVars, CoreVars, StoreVars,
                       ReplyVars, FanoutVars, ModelVars, RetryVars,
                       TriggerVars, LockVars, ConversationVars >>
OutsideLock == << AccVars, QueueVars, DispatchVars, MappingVars, ChatVars,
                  WaitVars, StartupVars, CloudVars, CoreVars, StoreVars,
                  ReplyVars, FanoutVars, ModelVars, RetryVars, TriggerVars,
                  ReflexionVars, ConversationVars >>
OutsideConversation == << AccVars, QueueVars, DispatchVars, MappingVars,
                          ChatVars, WaitVars, StartupVars, CloudVars, CoreVars,
                          StoreVars, FanoutVars, ModelVars, RetryVars,
                          TriggerVars, ReflexionVars, LockVars >>

vars == << AccVars, QueueVars, ExtVars >>

ObsIds == 1..(MaxObs + 1)
UploadIds == 1..(MaxUploads + 1)

(* ------------------------------ helpers -------------------------------- *)
Drop(f, S) == [x \in (DOMAIN f) \ S |-> f[x]]

Put(f, k, v) == [x \in (DOMAIN f) \cup {k} |-> IF x = k THEN v ELSE f[x]]

Range(s) == {s[i] : i \in DOMAIN s}

\* {'upload_uuid': u, 'filename': ..., 'pending': True}
Placeholder(u) == [kind |-> "placeholder", u |-> u]

\* the file reference object an upload resolves to
FileRef(u) == [kind |-> "file", u |-> u]

\* a local path, kept as it is when the model needs no upload
LocalUri(u) == [kind |-> "local", u |-> u]

\* isinstance(file_ref, dict) and file_ref.get('pending')
IsPending(ref) == ref.kind = "placeholder"

\* the None that try_resolve_upload returns for an upload that is not resolved
NoRef == [kind |-> "none", u |-> 0]

\* an entry of temporary_messages: (timestamp, {'image_uris', 'audio_segments',
\* 'message'}).  id is the arrival index of the observation and stands for
\* its timestamp; image_uris = << >> stands for None and for the empty list,
\* which the code treats alike except where noted; message tells whether the
\* observation carries text.
Entry(id, imgs, text) == [id |-> id, image_uris |-> imgs, message |-> text]

Ids(buf) == [i \in DOMAIN buf |-> buf[i].id]

(* --------------------------- UploadManager ----------------------------- *)
\* try_resolve_upload that hands out a reference for a failed upload too
try_resolve_uploadIgnoringFailure(ref, res) ==
    IF ~IsPending(ref) THEN [ref |-> ref, res |-> res]
    ELSE IF ref.u \in DOMAIN res
         THEN [ref |-> FileRef(ref.u), res |-> res]
         ELSE [ref |-> NoRef, res |-> res]

\* try_resolve_upload: the reference, or NoRef while pending; a stored
\* exception is removed from the table and reported as still pending
try_resolve_upload(ref, res) ==
    IF ~IsPending(ref) THEN [ref |-> ref, res |-> res]
    ELSE IF ref.u \in DOMAIN res
         THEN IF res[ref.u] = "err"
              THEN [ref |-> NoRef, res |-> Drop(res, {ref.u})]
              ELSE [ref |-> FileRef(ref.u), res |-> res]
         ELSE [ref |-> NoRef, res |-> res]

(* ----------------------- TemporaryMessageAccumulator ------------------- *)
\* a start time that lies more than upload_timeout_seconds back
LongAgo == 0

\* current_time - start_time, as far as the comparison with
\* upload_timeout_seconds goes
Elapsed(start_time) ==
    IF start_time = LongAgo THEN upload_timeout_seconds + 1 ELSE 0

\* the placeholders whose upload has been pending for too long
TimedOutPlaceholders(ust) ==
    {p \in DOMAIN ust : Elapsed(ust[p]) > upload_timeout_seconds}

\* HasTimedOutUpload looking at the first image of the item only
HasTimedOutFirstUpload(item, timed_out) ==
    /\ item.image_uris # << >>
    /\ IsPending(item.image_uris[1])
    /\ item.image_uris[1].u \in timed_out

\* lines 152-163: the item has a pending placeholder that timed out
HasTimedOutUpload(item, timed_out) ==
    \E j \in DOMAIN item.image_uris :
        IsPending(item.image_uris[j]) /\ item.image_uris[j].u \in timed_out

\* _detect_and_cleanup_timed_out_uploads, lines 148-171: under the lock the
\* items that hold a timed out placeholder are removed, then the tracking of
\* the timed out placeholders
RemoveTimedOut(buf, ust, timed_out) ==
    LET Keep(item) == ~HasTimedOutUpload(item, timed_out)
    IN  [buf |-> SelectSeq(buf, Keep), ust |-> Drop(ust, timed_out),
         timed_out |-> timed_out]

\* _detect_and_cleanup_timed_out_uploads
DetectTimeouts(buf, ust) ==
    LET timed_out == TimedOutPlaceholders(ust)
    IN  IF timed_out = {}
        THEN [buf |-> buf, ust |-> ust, timed_out |-> {}]
        ELSE RemoveTimedOut(buf, ust, timed_out)

\* the inner loop of should_absorb_content over one item's image_uris: stops
\* at the first unresolved placeholder, forgets the start time of each
\* placeholder it resolves
RECURSIVE ResolveImages(_, _, _, _, _)
ResolveImages(imgs, j, uris, res, ust) ==
    IF j > Len(imgs)
    THEN [pending |-> FALSE, uris |-> uris, res |-> res, ust |-> ust]
    ELSE IF IsPending(imgs[j])
         THEN LET r == try_resolve_upload(imgs[j], res)
              IN  IF r.ref = NoRef
                  THEN [pending |-> TRUE, uris |-> uris, res |-> r.res, ust |-> ust]
                  ELSE ResolveImages(imgs, j + 1, Append(uris, r.ref), r.res,
                                     Drop(ust, {imgs[j].u}))
         ELSE ResolveImages(imgs, j + 1, Append(uris, imgs[j]), res, ust)

\* ScanBuffer without the break of the outer loop: an item with a pending
\* upload is skipped and the scan goes on behind it
RECURSIVE ScanBufferPastPending(_, _, _, _, _)
ScanBufferPastPending(buf, i, ready, res, ust) ==
    IF i > Len(buf)
    THEN [ready |-> ready, res |-> res, ust |-> ust]
    ELSE LET r == ResolveImages(buf[i].image_uris, 1, << >>, res, ust)
         IN  IF r.pending
             THEN ScanBufferPastPending(buf, i + 1, ready, r.res, r.ust)
             ELSE ScanBufferPastPending(buf, i + 1,
                             Append(ready, [buf[i] EXCEPT !.image_uris = r.uris]),
                             r.res, r.ust)

\* the outer loop of should_absorb_content: stops at the first item that has
\* a pending upload
RECURSIVE ScanBuffer(_, _, _, _, _)
ScanBuffer(buf, i, ready, res, ust) ==
    IF i > Len(buf)
    THEN [ready |-> ready, res |-> res, ust |-> ust]
    ELSE LET r == ResolveImages(buf[i].image_uris, 1, << >>, res, ust)
         IN  IF r.pending
             THEN [ready |-> ready, res |-> r.res, ust |-> r.ust]
             ELSE ScanBuffer(buf, i + 1,
                             Append(ready, [buf[i] EXCEPT !.image_uris = r.uris]),
                             r.res, r.ust)

\* should_absorb_content that asks for more ready messages than the limit
should_absorb_contentAboveLimit(nu, buf, res, ust) ==
    IF nu
    THEN LET d == DetectTimeouts(buf, ust)
             s == ScanBuffer(d.buf, 1, << >>, res, d.ust)
         IN  [ready |-> IF Len(s.ready) > TEMPORARY_MESSAGE_LIMIT
                        THEN s.ready ELSE << >>,
              buf |-> d.buf, res |-> s.res, ust |-> s.ust,
              timed_out |-> d.timed_out]
    ELSE [ready |-> IF Len(buf) > TEMPORARY_MESSAGE_LIMIT THEN buf ELSE << >>,
          buf |-> buf, res |-> res, ust |-> ust, timed_out |-> {}]

\* should_absorb_content: the ready messages, and the buffer and tables it
\* leaves behind
should_absorb_content(nu, buf, res, ust) ==
    IF nu
    THEN LET d == DetectTimeouts(buf, ust)
             s == ScanBuffer(d.buf, 1, << >>, res, d.ust)
         IN  [ready |-> IF Len(s.ready) >= TEMPORARY_MESSAGE_LIMIT
                        THEN s.ready ELSE << >>,
              buf |-> d.buf, res |-> s.res, ust |-> s.ust,
              timed_out |-> d.timed_out]
    ELSE [ready |-> IF Len(buf) >= TEMPORARY_MESSAGE_LIMIT THEN buf ELSE << >>,
          buf |-> buf, res |-> res, ust |-> ust, timed_out |-> {}]

\* the separation loop of absorb_content_into_memory when no ready list is
\* passed: an item with a pending upload is kept for the next cycle and the
\* loop goes on with the items behind it
RECURSIVE ForcedImages(_, _, _, _)
ForcedImages(imgs, j, uris, res) ==
    IF j > Len(imgs)
    THEN [pending |-> FALSE, uris |-> uris, res |-> res]
    ELSE IF IsPending(imgs[j])
         THEN LET r == try_resolve_upload(imgs[j], res)
              IN  IF r.ref = NoRef
                  THEN [pending |-> TRUE, uris |-> uris, res |-> r.res]
                  ELSE ForcedImages(imgs, j + 1, Append(uris, r.ref), r.res)
         ELSE ForcedImages(imgs, j + 1, Append(uris, imgs[j]), res)

RECURSIVE SeparateItems(_, _, _, _, _)
SeparateItems(buf, i, ready, pending_items, res) ==
    IF i > Len(buf)
    THEN [ready |-> ready, pending_items |-> pending_items, res |-> res]
    ELSE LET r == ForcedImages(buf[i].image_uris, 1, << >>, res)
         IN  IF r.pending
             THEN SeparateItems(buf, i + 1, ready, Append(pending_items, buf[i]), r.res)
             ELSE SeparateItems(buf, i + 1,
                                Append(ready, [buf[i] EXCEPT !.image_uris = r.uris]),
                                pending_items, r.res)

RECURSIVE SumImages(_)
SumImages(items) ==
    IF items = << >> THEN 0
    ELSE Len(Head(items).image_uris) + SumImages(Tail(items))

\* absorb_content_into_memory(agent_states), lines 298-347: what the call
\* does up to the point where the buffer is replaced.
\*   "raise":   NotImplementedError for an image when the model needs no
\*              upload; TypeError of len(None) when a ready item of an
\*              uploading model has no images
\*   "return":  fewer uploaded images than the limit
\*   "process": ready_to_process is taken and pending_items stay
ForcedAbsorb(nu, buf, res) ==
    IF ~nu
    THEN IF \E i \in DOMAIN buf : buf[i].image_uris # << >>
         THEN [outcome |-> "raise", ready |-> << >>, buf |-> buf, res |-> res]
         ELSE [outcome |-> "process", ready |-> buf, buf |-> << >>, res |-> res]
    ELSE LET s == SeparateItems(buf, 1, << >>, << >>, res)
         IN  IF \E i \in DOMAIN s.ready : s.ready[i].image_uris = << >>
             THEN [outcome |-> "raise", ready |-> << >>, buf |-> buf, res |-> s.res]
             ELSE IF SumImages(s.ready) < TEMPORARY_MESSAGE_LIMIT
                  THEN [outcome |-> "return", ready |-> << >>, buf |-> buf,
                        res |-> s.res]
                  ELSE [outcome |-> "process", ready |-> s.ready,
                        buf |-> s.pending_items, res |-> s.res]

\* absorb_content_into_memory(agent_states, ready_messages), lines 288-296:
\* as many items as the ready list holds are cut from the head of the buffer
TrimReady(buf, ready) == SubSeq(buf, Len(ready) + 1, Len(buf))

HasImages(item) == item.image_uris # << >>
HasText(item) == item.message

Reverse(s) == [i \in DOMAIN s |-> s[Len(s) + 1 - i]]

\* _build_memory_message that lists the screenshots newest first
build_memory_messageNewestFirst(ready_to_process) ==
    [images |-> Reverse(Ids(SelectSeq(ready_to_process, HasImages))),
     texts  |-> Ids(SelectSeq(ready_to_process, HasText)),
     raises |-> \E i \in DOMAIN ready_to_process :
                   \E j \in DOMAIN ready_to_process[i].image_uris :
                       ready_to_process[i].image_uris[j].kind = "local"]

\* _build_memory_message: the screenshots section lists the items that have
\* images, the text section the items that have text, each in the order of
\* ready_to_process.  raises tells that a reference without .uri (a local
\* path) is met.
build_memory_message(ready_to_process) ==
    [images |-> Ids(SelectSeq(ready_to_process, HasImages)),
     texts  |-> Ids(SelectSeq(ready_to_process, HasText)),
     raises |-> \E i \in DOMAIN ready_to_process :
                   \E j \in DOMAIN ready_to_process[i].image_uris :
                       ready_to_process[i].image_uris[j].kind = "local"]


(* ------------------------------- state --------------------------------- *)
IdleCall == [ready |-> << >>, left |-> 0, refs |-> << >>, cur |-> 0,
             images |-> << >>, texts |-> << >>]

IdleJanitor == [busy |-> FALSE, timed_out |-> {}]

\* the results that uploads absorbed before the modelled window left in the
\* table: the accumulator never calls cleanup_resolved_upload, so the table
\* only shrinks when _maybe_cleanup_old_results clears it
StaleResultsAtStart == {cleanup_threshold - 2}

InitAccumulator ==
    /\ needs_upload \in BOOLEAN
    /\ temporary_messages = << >>
    /\ upload_start_times = << >>
    /\ upload_results = << >>
    /\ stale_results \in StaleResultsAtStart
    /\ upload_queue = << >>
    /\ file_cleaners = {}
    /\ pc = "idle"
    /\ call = IdleCall
    /\ janitor = IdleJanitor
    /\ next_obs = 0
    /\ next_upload = 0
    /\ outcomes = [u \in UploadIds |-> {}]

\* an item has a placeholder that try_resolve_upload would not resolve
Unresolved(item, res) ==
    \E j \in DOMAIN item.image_uris :
        /\ IsPending(item.image_uris[j])
        /\ \/ item.image_uris[j].u \notin DOMAIN res
           \/ res[item.image_uris[j].u] = "err"

\* history: the timed out placeholders of the items that a run of
\* _detect_and_cleanup_timed_out_uploads removes
NoteTimeouts(buf, timed_out) ==
    outcomes' = [u \in UploadIds |->
                       IF /\ u \in timed_out
                          /\ \E i \in DOMAIN buf : \E j \in DOMAIN buf[i].image_uris :
                                 buf[i].image_uris[j] = Placeholder(u)
                       THEN outcomes[u] \cup {"timeout"}
                       ELSE outcomes[u]]

\* a wait_for_upload that ends with TimeoutError has lasted 60 s or 90 s,
\* longer than upload_timeout_seconds: the start times tracked since before
\* the wait began are all older than upload_timeout_seconds
WaitedLong(tracked) ==
    \A u \in tracked \cap DOMAIN upload_start_times :
        Elapsed(upload_start_times[u]) > upload_timeout_seconds

(* ----------------------- AgentWrapper.send_message --------------------- *)
\* send_message(memorizing=True) up to the end of add_message, for a model
\* that needs no upload: the item is appended with the local paths
AddLocal(n, text) ==
    /\ pc = "idle"
    /\ ~needs_upload
    /\ next_obs < MaxObs
    /\ n > 0 \/ text
    /\ temporary_messages' =
           Append(temporary_messages,
                  Entry(next_obs + 1, [j \in 1..n |-> LocalUri(j)], text))
    /\ next_obs' = next_obs + 1
    /\ pc' = "added"
    /\ UNCHANGED << needs_upload, upload_start_times, upload_results, stale_results,
                    upload_queue, file_cleaners, call, janitor, next_upload,
                    outcomes, OutsideAccumulator >>

\* send_message(memorizing=True, async_upload=True) up to the end of
\* add_message: every image is queued for upload and stands in the item as
\* a placeholder whose start time is tracked; with delete_after_upload a
\* _cleanup_file_after_upload thread is started
AddAsync(n, text, delete_after_upload) ==
    /\ pc = "idle"
    /\ needs_upload
    /\ next_obs < MaxObs
    /\ next_upload + n <= MaxUploads
    /\ n > 0 \/ text
    /\ n = 0 => ~delete_after_upload
    /\ delete_after_upload => Cardinality(file_cleaners) < MaxCleaners
    /\ LET us == [j \in 1..n |-> next_upload + j]
       IN  /\ upload_queue' = upload_queue \o us
           /\ upload_start_times' =
                  [u \in (DOMAIN upload_start_times) \cup Range(us) |->
                      IF u \in Range(us) THEN next_obs + 1 ELSE upload_start_times[u]]
           /\ temporary_messages' =
                  Append(temporary_messages,
                         Entry(next_obs + 1, [j \in 1..n |-> Placeholder(us[j])], text))
           /\ file_cleaners' =
                  IF delete_after_upload /\ n > 0
                  THEN file_cleaners \cup {us}
                  ELSE file_cleaners
    /\ next_obs' = next_obs + 1
    /\ next_upload' = next_upload + n
    /\ pc' = "added"
    /\ UNCHANGED << needs_upload, upload_results, stale_results, call, janitor,
                    outcomes, OutsideAccumulator >>

\* send_message(memorizing=True, async_upload=False): add_message calls
\* upload_file for the first image, which queues the job and waits for it
AddSyncBegin(n) ==
    /\ pc = "idle"
    /\ needs_upload
    /\ next_obs < MaxObs
    /\ n > 0
    /\ next_upload + n <= MaxUploads
    /\ upload_queue' = Append(upload_queue, next_upload + 1)
    /\ next_upload' = next_upload + 1
    /\ pc' = "sync_wait"
    /\ call' = [IdleCall EXCEPT !.left = n - 1, !.cur = next_upload + 1]
    /\ UNCHANGED << needs_upload, temporary_messages, upload_start_times,
                    upload_results, stale_results, file_cleaners, janitor, next_obs,
                    outcomes, OutsideAccumulator >>

\* wait_for_upload(placeholder, timeout=90) inside upload_file returns the
\* file reference: the next image is uploaded, or the item is appended
AddSyncResolved(text) ==
    /\ pc = "sync_wait"
    /\ call.cur \in DOMAIN upload_results
    /\ upload_results[call.cur] = "ok"
    /\ LET refs == Append(call.refs, FileRef(call.cur))
       IN  IF call.left > 0
           THEN /\ upload_queue' = Append(upload_queue, next_upload + 1)
                /\ next_upload' = next_upload + 1
                /\ call' = [call EXCEPT !.refs = refs, !.left = @ - 1,
                                        !.cur = next_upload + 1]
                /\ UNCHANGED << pc, temporary_messages, next_obs >>
           ELSE /\ temporary_messages' =
                       Append(temporary_messages, Entry(next_obs + 1, refs, text))
                /\ next_obs' = next_obs + 1
                /\ pc' = "added"
                /\ call' = IdleCall
                /\ UNCHANGED << upload_queue, next_upload >>
    /\ UNCHANGED << needs_upload, upload_start_times, upload_results, stale_results,
                    file_cleaners, janitor, outcomes, OutsideAccumulator >>

\* wait_for_upload inside upload_file raises: the stored exception of the
\* upload (which it removes from the table), or TimeoutError after 90 s,
\* by when every start time tracked before the wait is older than
\* upload_timeout_seconds.  add_message and send_message end with the
\* exception, nothing is appended
AddSyncRaises ==
    /\ pc = "sync_wait"
    /\ \/ /\ call.cur \in DOMAIN upload_results
          /\ upload_results[call.cur] = "err"
          /\ upload_results' = Drop(upload_results, {call.cur})
       \/ /\ call.cur \notin DOMAIN upload_results
          /\ WaitedLong(DOMAIN upload_start_times)
          /\ UNCHANGED upload_results
    /\ pc' = "idle"
    /\ call' = IdleCall
    /\ UNCHANGED << needs_upload, temporary_messages, upload_start_times,
                    stale_results, upload_queue, file_cleaners, janitor, next_obs,
                    next_upload, outcomes, OutsideAccumulator >>

\* send_message, lines 1500-1501: should_absorb_content, then the decision
\* whether absorb_content_into_memory is called.  force_absorb_content and
\* the text of a synchronous add are arguments of send_message that nothing
\* reads before the step that draws them.
ShouldFlush(force_absorb_content) ==
    /\ pc = "added"
    /\ LET r == should_absorb_content(needs_upload, temporary_messages,
                                      upload_results, upload_start_times)
       IN  /\ temporary_messages' = r.buf
           /\ upload_results' = r.res
           /\ upload_start_times' = r.ust
           /\ NoteTimeouts(temporary_messages, r.timed_out)
           /\ call' = [IdleCall EXCEPT !.ready = r.ready]
           /\ pc' = IF force_absorb_content \/ r.ready # << >>
                    THEN "absorb" ELSE "idle"
    /\ UNCHANGED << needs_upload, stale_results, upload_queue, file_cleaners,
                    janitor, next_obs, next_upload, OutsideAccumulator >>

\* absorb_content_into_memory(agent_states, ready_messages) up to the
\* dispatch: the buffer is cut, the message is built and handed to the
\* memory agents.  _build_memory_message raising ends the call after the cut.
AbsorbReady ==
    /\ pc = "absorb"
    /\ call.ready # << >>
    /\ LET msg == build_memory_message(call.ready)
       IN  /\ temporary_messages' = TrimReady(temporary_messages, call.ready)
           /\ IF msg.raises
              THEN /\ pc' = "idle"
                   /\ call' = IdleCall
              ELSE /\ pc' = "dispatch"
                   /\ call' = [call EXCEPT !.images = msg.images,
                                           !.texts = msg.texts]
    /\ UNCHANGED << needs_upload, upload_start_times, upload_results, stale_results,
                    upload_queue, file_cleaners, janitor, next_obs, next_upload,
                    outcomes, OutsideAccumulator >>

\* absorb_content_into_memory(agent_states) up to the dispatch (forced
\* absorb, should_absorb_content returned nothing)
AbsorbForced ==
    /\ pc = "absorb"
    /\ call.ready = << >>
    /\ LET r == ForcedAbsorb(needs_upload, temporary_messages, upload_results)
           msg == build_memory_message(r.ready)
       IN  /\ temporary_messages' = r.buf
           /\ upload_results' = r.res
           /\ IF r.outcome = "process" /\ ~msg.raises
              THEN /\ pc' = "dispatch"
                   /\ call' = [IdleCall EXCEPT !.ready = r.ready,
                                               !.images = msg.images,
                                               !.texts = msg.texts]
              ELSE /\ pc' = "idle"
                   /\ call' = IdleCall
    /\ UNCHANGED << needs_upload, upload_start_times, stale_results, upload_queue,
                    file_cleaners, janitor, next_obs, next_upload, outcomes,
                    OutsideAccumulator >>

\* the dispatch to the memory agents returns; _cleanup_processed_content and
\* the rest of send_message
AbsorbFinish ==
    /\ pc = "dispatch"
    /\ pc' = "idle"
    /\ call' = IdleCall
    /\ UNCHANGED << needs_upload, temporary_messages, upload_start_times,
                    upload_results, stale_results, upload_queue, file_cleaners,
                    janitor, next_obs, next_upload, outcomes, OutsideAccumulator >>

(* ------------ _detect_and_cleanup_timed_out_uploads, apart ------------- *)
\* _detect_and_cleanup_timed_out_uploads run by another thread than the one
\* that memorizes: by get_recent_images_for_chat for a chat request, or by
\* cleanup_timed_out_uploads.  Lines 138-146: the timed out placeholders are
\* collected before the lock is taken.  With none the call returns.
JanitorFind ==
    /\ ~janitor.busy
    /\ TimedOutPlaceholders(upload_start_times) # {}
    /\ janitor' = [busy |-> TRUE,
                   timed_out |-> TimedOutPlaceholders(upload_start_times)]
    /\ UNCHANGED << needs_upload, temporary_messages, upload_start_times,
                    upload_results, stale_results, upload_queue, file_cleaners,
                    pc, call, next_obs, next_upload, outcomes, OutsideAccumulator >>

\* lines 148-173: the lock is taken, the items are removed, the tracking is
\* removed
JanitorRemove ==
    /\ janitor.busy
    /\ LET d == RemoveTimedOut(temporary_messages, upload_start_times,
                               janitor.timed_out)
       IN  /\ temporary_messages' = d.buf
           /\ upload_start_times' = d.ust
           /\ NoteTimeouts(temporary_messages, d.timed_out)
    /\ janitor' = IdleJanitor
    /\ UNCHANGED << needs_upload, upload_results, stale_results, upload_queue,
                    file_cleaners, pc, call, next_obs, next_upload, OutsideAccumulator >>

(* ------------------------ UploadManager threads ------------------------ *)
\* _maybe_cleanup_old_results, called in the worker's finally clause
maybe_cleanup_old_results(res, stale) ==
    IF stale + Cardinality(DOMAIN res) > cleanup_threshold
    THEN [res |-> << >>, stale |-> 0]
    ELSE [res |-> res, stale |-> stale]

\* the jobs that a worker can have taken from the FIFO queue: the workers
\* take jobs in order, so the jobs in progress are among the first
\* NumUploadWorkers that have not ended
InProgress == {upload_queue[i] : i \in {k \in DOMAIN upload_queue : k <= NumUploadWorkers}}

\* _upload_worker, one job from the queue to the finally clause: the upload
\* ends with a file reference or with an exception, which is stored under
\* the upload's uuid; then _maybe_cleanup_old_results runs
UploadWorker(u, result) ==
    /\ u \in InProgress
    /\ LET NotU(x) == x # u
       IN  upload_queue' = SelectSeq(upload_queue, NotU)
    /\ LET r == maybe_cleanup_old_results(Put(upload_results, u, result), stale_results)
       IN  /\ upload_results' = r.res
           /\ stale_results' = r.stale
    /\ outcomes' = [outcomes EXCEPT
                       ![u] = @ \cup {IF result = "ok" THEN "success" ELSE "error"}]
    /\ UNCHANGED << needs_upload, temporary_messages, upload_start_times,
                    file_cleaners, pc, call, janitor, next_obs, next_upload,
                    OutsideAccumulator >>

\* _cleanup_file_after_upload: wait_for_upload(placeholder, timeout=60) on
\* the thread's next placeholder ends.  A file reference: the placeholder's
\* start time is forgotten.  A stored exception: wait_for_upload removes it
\* from the table and raises.  Neither within 60 s: TimeoutError, by when
\* the placeholder's start time, if still tracked, is older than
\* upload_timeout_seconds.  In each case the local file is removed and the
\* thread goes on.
Advance(t) ==
    IF Len(t) > 1 THEN (file_cleaners \ {t}) \cup {Tail(t)} ELSE file_cleaners \ {t}

CleanerStep(t) ==
    /\ t \in file_cleaners
    /\ LET u == Head(t)
       IN  \/ /\ u \in DOMAIN upload_results
              /\ upload_results[u] = "ok"
              /\ upload_start_times' = Drop(upload_start_times, {u})
              /\ UNCHANGED upload_results
           \/ /\ u \in DOMAIN upload_results
              /\ upload_results[u] = "err"
              /\ upload_results' = Drop(upload_results, {u})
              /\ UNCHANGED upload_start_times
           \/ /\ u \notin DOMAIN upload_results
              /\ WaitedLong({u})
              /\ UNCHANGED << upload_results, upload_start_times >>
    /\ file_cleaners' = Advance(t)
    /\ UNCHANGED << needs_upload, temporary_messages, stale_results, upload_queue,
                    pc, call, janitor, next_obs, next_upload, outcomes, OutsideAccumulator >>

(* -------------------------------- time --------------------------------- *)
\* time.time() advances until the start time of u, and every start time
\* before it, lies more than upload_timeout_seconds back
Tick(u) ==
    /\ u \in DOMAIN upload_start_times
    /\ upload_start_times[u] # LongAgo
    /\ upload_start_times' =
           [v \in DOMAIN upload_start_times |->
               IF upload_start_times[v] <= upload_start_times[u]
               THEN LongAgo ELSE upload_start_times[v]]
    /\ UNCHANGED << needs_upload, temporary_messages, upload_results, stale_results,
                    upload_queue, file_cleaners, pc, call, janitor, next_obs,
                    next_upload, outcomes, OutsideAccumulator >>

(* ------------------- agent.py: send_message_in_queue ------------------- *)
\* the threads that call send_message_in_queue (the worker threads of the
\* desktop application)
Threads == 1..MaxThreads

AgentTypes == {"chat", "meta_memory"}

\* locals of a thread outside check_if_earlier_requests_are_finished
NoCopy == [touched |-> FALSE, net |-> 0, deleted |-> FALSE, skippable |-> {}]

InitQueue ==
    /\ message_queue = << >>
    /\ qpc = [t \in Threads |-> "idle"]
    /\ qcall = [t \in Threads |-> [uuid |-> 0, copy |-> NoCopy]]
    /\ next_uuid = 0
    /\ completed = {}
    /\ overtaken = {}

Uuids(q) == {q[i].uuid : i \in DOMAIN q}

IndexOf(q, uuid) == CHOOSE i \in DOMAIN q : q[i].uuid = uuid

\* check_if_earlier_requests_are_finished on the copy q of the queue,
\* lines 323-331: "raise" for the ValueError, else the boolean returned
check_if_earlier_requests_are_finished(q, message_uuid) ==
    IF message_uuid \notin Uuids(q) THEN "raise"
    ELSE LET idx == IndexOf(q, message_uuid)
         IN  IF \E i \in 1..(idx - 1) :
                    q[i].type = q[idx].type /\ ~q[i].finished
             THEN "false" ELSE "true"

\* what a key inserted into self.message_queue does to the deepcopy that
\* another thread has in progress: the size of the dictionary changes, and
\* an insertion after a deletion can make the dictionary rebuild its entry
\* table, which moves the entries under the iterator so that it passes over
\* the entry it was about to visit
NoteInsert(t) ==
    qcall' = [x \in Threads |->
                 IF x # t /\ qpc[x] = "copying"
                 THEN [qcall[x] EXCEPT !.copy.touched = TRUE,
                                       !.copy.net = @ + 1,
                                       !.copy.skippable =
                                           IF qcall[x].copy.deleted
                                           THEN @ \cup Uuids(message_queue)
                                           ELSE @]
                 ELSE IF x = t
                      THEN [uuid |-> next_uuid + 1, copy |-> NoCopy]
                      ELSE qcall[x]]

\* what a key deleted from self.message_queue does to the deepcopy that
\* another thread has in progress
NoteDelete(t) ==
    qcall' = [x \in Threads |->
                 IF x # t /\ qpc[x] = "copying"
                 THEN [qcall[x] EXCEPT !.copy.touched = TRUE,
                                       !.copy.net = @ - 1,
                                       !.copy.deleted = TRUE]
                 ELSE qcall[x]]

\* lines 288-296: the request is put into the queue under a new uuid
Submit(t, type) ==
    /\ qpc[t] = "idle"
    /\ next_uuid < MaxRequests
    /\ message_queue' = Append(message_queue,
                               [uuid |-> next_uuid + 1, type |-> type,
                                started |-> FALSE, finished |-> FALSE])
    /\ next_uuid' = next_uuid + 1
    /\ NoteInsert(t)
    /\ qpc' = [qpc EXCEPT ![t] = "poll"]
    /\ UNCHANGED << completed, overtaken, OutsideQueue >>

\* line 322: copy.deepcopy(self.message_queue) begins to iterate over the
\* dictionary, which no lock protects
CopyBegin(t) ==
    /\ qpc[t] = "poll"
    /\ qpc' = [qpc EXCEPT ![t] = "copying"]
    /\ qcall' = [qcall EXCEPT ![t].copy = NoCopy]
    /\ UNCHANGED << message_queue, next_uuid, completed, overtaken, OutsideQueue >>

\* the copies of self.message_queue that the deepcopy of thread t can end
\* with.  A dictionary that no thread changed meanwhile is copied as it is.
\* A dictionary whose size differs raises RuntimeError.  A dictionary that
\* is back at its size, one key deleted and one inserted, is iterated to the
\* end, where an entry that the rebuilt table moved past the iterator is
\* left out; the change can also be noticed half way, with RuntimeError.
CopiesOf(t) ==
    IF ~qcall[t].copy.touched THEN {message_queue}
    ELSE IF qcall[t].copy.net # 0 THEN {}
    ELSE {message_queue} \cup
         {SelectSeq(message_queue, LAMBDA m : m.uuid # x) :
              x \in qcall[t].copy.skippable \cap Uuids(message_queue)}

\* lines 322-331 and the while of line 298: the deepcopy ends and the copy
\* is examined; the request sleeps 0.1 s and polls again, or goes on to its
\* client call, or the exception of the check ends send_message_in_queue
\* and leaves the request in the queue
CopyEnd(t) ==
    /\ qpc[t] = "copying"
    /\ \/ /\ qcall[t].copy.touched
          /\ qpc' = [qpc EXCEPT ![t] = "idle"]
       \/ \E q \in CopiesOf(t) :
              LET r == check_if_earlier_requests_are_finished(q, qcall[t].uuid)
              IN  qpc' = [qpc EXCEPT ![t] =
                             CASE r = "raise" -> "idle"
                               [] r = "false" -> "poll"
                               [] r = "true" -> "start"]
    /\ qcall' = [qcall EXCEPT ![t].copy = NoCopy]
    /\ UNCHANGED << message_queue, next_uuid, completed, overtaken, OutsideQueue >>

\* line 304: started is set and the client call begins
StartCall(t) ==
    /\ qpc[t] = "start"
    /\ LET idx == IndexOf(message_queue, qcall[t].uuid)
       IN  /\ message_queue' = [message_queue EXCEPT ![idx].started = TRUE]
           /\ overtaken' = overtaken \cup
                  {<< message_queue[i].uuid, qcall[t].uuid >> :
                       i \in {k \in 1..(idx - 1) :
                                 /\ message_queue[k].type = message_queue[idx].type
                                 /\ ~message_queue[k].finished}}
    /\ qpc' = [qpc EXCEPT ![t] = "calling"]
    /\ UNCHANGED << qcall, next_uuid, completed, OutsideQueue >>

\* lines 308-314: client.send_message returns and finished is set
FinishCall(t) ==
    /\ qpc[t] = "calling"
    /\ LET idx == IndexOf(message_queue, qcall[t].uuid)
       IN  message_queue' = [message_queue EXCEPT ![idx].finished = TRUE]
    /\ completed' = completed \cup {qcall[t].uuid}
    /\ qpc' = [qpc EXCEPT ![t] = "finished"]
    /\ UNCHANGED << qcall, next_uuid, overtaken, OutsideQueue >>

\* lines 308-312: client.send_message raises; nothing catches the exception
\* inside send_message_in_queue and the request stays in the queue
CallRaises(t) ==
    /\ qpc[t] = "calling"
    /\ qpc' = [qpc EXCEPT ![t] = "idle"]
    /\ UNCHANGED << message_queue, qcall, next_uuid, completed, overtaken,
                    OutsideQueue >>

\* lines 317-318: the request is deleted from the queue
DeleteRequest(t) ==
    /\ qpc[t] = "finished"
    /\ message_queue' = SelectSeq(message_queue, LAMBDA m : m.uuid # qcall[t].uuid)
    /\ NoteDelete(t)
    /\ qpc' = [qpc EXCEPT ![t] = "idle"]
    /\ UNCHANGED << next_uuid, completed, overtaken, OutsideQueue >>

NextQueue ==
    \/ \E t \in Threads, type \in AgentTypes : Submit(t, type)
    \/ \E t \in Threads : CopyBegin(t)
    \/ \E t \in Threads : CopyEnd(t)
    \/ \E t \in Threads : StartCall(t)
    \/ \E t \in Threads : FinishCall(t)
    \/ \E t \in Threads : CallRaises(t)
    \/ \E t \in Threads : DeleteRequest(t)

(* ------------- absorb_content_into_memory from several threads --------- *)
\* the threads that call send_message(memorizing=True)
Callers == 1..MaxCallers

\* memory_agent_types of _send_to_memory_agents_separately, the first
\* MaxAgentTypes of the six
MemoryAgentTypes == 1..MaxAgentTypes

InitDispatch ==
    /\ flush_pc = [c \in Callers |-> "idle"]
    /\ flush_of = [c \in Callers |-> 0]
    /\ next_flush = 0
    /\ pool_tasks = {}
    /\ agent_queue = [a \in MemoryAgentTypes |-> << >>]
    /\ processed = [a \in MemoryAgentTypes |-> << >>]

\* absorb_content_into_memory, lines 288-296 (or 298-347): under
\* _temporary_messages_lock the thread cuts its observations from the
\* buffer; the order of the cuts is the order in which the accumulator emits
\* the flushes
EmitFlush(c) ==
    /\ flush_pc[c] = "idle"
    /\ next_flush < MaxFlushes
    /\ next_flush' = next_flush + 1
    /\ flush_of' = [flush_of EXCEPT ![c] = next_flush + 1]
    /\ flush_pc' = [flush_pc EXCEPT ![c] = "built"]
    /\ UNCHANGED << pool_tasks, agent_queue, processed, OutsideDispatch >>

\* lines 398-430 and 573-578: outside the lock the message is built and one
\* send_message_in_queue call per memory agent type is submitted to the pool
SendToMemoryAgents(c) ==
    /\ flush_pc[c] = "built"
    /\ pool_tasks' = pool_tasks \cup {<< flush_of[c], a >> : a \in MemoryAgentTypes}
    /\ flush_pc' = [flush_pc EXCEPT ![c] = "waiting"]
    /\ UNCHANGED << flush_of, next_flush, agent_queue, processed, OutsideDispatch >>

\* MessageQueue.send_message_in_queue begins in a pool thread: the request
\* takes its place behind the requests of its agent type
EnqueueRequest(f, a) ==
    /\ << f, a >> \in pool_tasks
    /\ pool_tasks' = pool_tasks \ {<< f, a >>}
    /\ agent_queue' = [agent_queue EXCEPT ![a] = Append(@, f)]
    /\ UNCHANGED << flush_pc, flush_of, next_flush, processed, OutsideDispatch >>

\* MessageQueue: the oldest request of an agent type is eligible, is
\* processed by the agent and leaves the queue
ProcessRequest(a) ==
    /\ agent_queue[a] # << >>
    /\ processed' = [processed EXCEPT ![a] = Append(@, Head(agent_queue[a]))]
    /\ agent_queue' = [agent_queue EXCEPT ![a] = Tail(@)]
    /\ UNCHANGED << flush_pc, flush_of, next_flush, pool_tasks, OutsideDispatch >>

\* lines 580-583 and 444: every future of the flush has its result,
\* _cleanup_processed_content runs and absorb_content_into_memory returns
FlushReturns(c) ==
    /\ flush_pc[c] = "waiting"
    /\ \A a \in MemoryAgentTypes :
           \E i \in DOMAIN processed[a] : processed[a][i] = flush_of[c]
    /\ flush_pc' = [flush_pc EXCEPT ![c] = "idle"]
    /\ UNCHANGED << flush_of, next_flush, pool_tasks, agent_queue, processed,
                    OutsideDispatch >>

NextDispatch ==
    \/ \E c \in Callers : EmitFlush(c)
    \/ \E c \in Callers : SendToMemoryAgents(c)
    \/ \E f \in 1..MaxFlushes, a \in MemoryAgentTypes : EnqueueRequest(f, a)
    \/ \E a \in MemoryAgentTypes : ProcessRequest(a)
    \/ \E c \in Callers : FlushReturns(c)

(* ----------------------- cloud file mappings --------------------------- *)
\* the file reference that the blob provider returns for upload u has a
\* name ("files/abc") and a uri (the URL of that file): two different strings
FileName(u) == << "name", u >>
FileUri(u) == << "uri", u >>

InitMapping ==
    /\ cloud_file_mapping = << >>
    /\ upload_state = [u \in UploadIds |-> "queued"]
    /\ flushed_uploads = {}

\* CloudFileMappingManager.add_mapping(local_file_id, cloud_file_id,
\* force_add=True): a row with status uploaded
add_mapping(rows, cloud_file_id) == Put(rows, cloud_file_id, "uploaded")

\* CloudFileMappingManager.set_processed(cloud_file_id): the row of that
\* cloud_file_id gets status processed; without such a row nothing changes
\* (the caller swallows the exception)
set_processed(rows, cloud_file_id) ==
    IF cloud_file_id \in DOMAIN rows
    THEN [rows EXCEPT ![cloud_file_id] = "processed"]
    ELSE rows

\* _upload_worker, lines 163-181: the upload succeeds, the mapping is added
\* under file_ref.uri and the file reference is stored as the result
UploadSucceeds(u) ==
    /\ upload_state[u] = "queued"
    /\ cloud_file_mapping' = add_mapping(cloud_file_mapping, FileUri(u))
    /\ upload_state' = [upload_state EXCEPT ![u] = "uploaded"]
    /\ UNCHANGED << flushed_uploads, OutsideMapping >>

\* _upload_worker, lines 183-186: the upload fails, no mapping is added
UploadFails(u) ==
    /\ upload_state[u] = "queued"
    /\ upload_state' = [upload_state EXCEPT ![u] = "failed"]
    /\ UNCHANGED << cloud_file_mapping, flushed_uploads, OutsideMapping >>

\* _cleanup_processed_content over the file references of a flush, one
\* set_processed(cloud_file_id=file_ref.name) after the other
RECURSIVE MarkProcessed(_, _)
MarkProcessed(rows, batch) ==
    IF batch = {} THEN rows
    ELSE LET u == CHOOSE x \in batch : TRUE
         IN  MarkProcessed(set_processed(rows, FileName(u)), batch \ {u})

\* absorb_content_into_memory ends: the flush of the observations that hold
\* the images of batch (resolved, so their uploads succeeded) completes with
\* _cleanup_processed_content
CleanupProcessedContent(batch) ==
    /\ batch # {}
    /\ \A u \in batch : upload_state[u] = "uploaded" /\ u \notin flushed_uploads
    /\ cloud_file_mapping' = MarkProcessed(cloud_file_mapping, batch)
    /\ flushed_uploads' = flushed_uploads \cup batch
    /\ UNCHANGED << upload_state, OutsideMapping >>

NextMapping ==
    \/ \E u \in UploadIds : UploadSucceeds(u)
    \/ \E u \in UploadIds : UploadFails(u)
    \/ \E batch \in SUBSET UploadIds : CleanupProcessedContent(batch)

(* -------------------- get_recent_images_for_chat ---------------------- *)
InitChat == most_recent_images = << >>

\* the loop over the image_uris of one item, lines 265-281: a placeholder
\* that try_resolve_upload resolves stands as its file reference and its
\* start time is forgotten, one that it does not resolve is skipped; a
\* reference that is no placeholder is taken as it is
RECURSIVE ChatImages(_, _, _, _, _, _)
ChatImages(nu, imgs, j, images, res, ust) ==
    IF j > Len(imgs)
    THEN [images |-> images, res |-> res, ust |-> ust]
    ELSE IF nu /\ IsPending(imgs[j])
         THEN LET r == try_resolve_upload(imgs[j], res)
              IN  IF r.ref = NoRef
                  THEN ChatImages(nu, imgs, j + 1, images, r.res, ust)
                  ELSE ChatImages(nu, imgs, j + 1, Append(images, r.ref), r.res,
                                  Drop(ust, {imgs[j].u}))
         ELSE ChatImages(nu, imgs, j + 1, Append(images, imgs[j]), res, ust)

\* the loop over most_recent_content, lines 262-281
RECURSIVE ChatScan(_, _, _, _, _, _)
ChatScan(nu, content, i, images, res, ust) ==
    IF i > Len(content)
    THEN [images |-> images, res |-> res, ust |-> ust]
    ELSE LET r == ChatImages(nu, content[i].image_uris, 1, images, res, ust)
         IN  ChatScan(nu, content, i + 1, r.images, r.res, r.ust)

\* self.temporary_messages[-recent_limit:] with
\* recent_limit = min(self.temporary_message_limit, len(self.temporary_messages))
MostRecentContent(buf) ==
    LET recent_limit == IF TEMPORARY_MESSAGE_LIMIT < Len(buf)
                        THEN TEMPORARY_MESSAGE_LIMIT ELSE Len(buf)
    IN  SubSeq(buf, Len(buf) - recent_limit + 1, Len(buf))

\* get_recent_images_for_chat: the images it returns, and the buffer and
\* tables it leaves behind
get_recent_images_for_chat(nu, buf, res, ust) ==
    LET d == DetectTimeouts(buf, ust)
        s == ChatScan(nu, MostRecentContent(d.buf), 1, << >>, res, d.ust)
    IN  [images |-> s.images, buf |-> d.buf, res |-> s.res, ust |-> s.ust,
         timed_out |-> d.timed_out]

\* a chat request calls get_recent_images_for_chat, on whatever thread the
\* request came in: the call takes _temporary_messages_lock and so falls
\* between the locked sections of a send_message that memorizes
GetRecentImagesForChat ==
    /\ LET r == get_recent_images_for_chat(needs_upload, temporary_messages,
                                           upload_results, upload_start_times)
       IN  /\ most_recent_images' = r.images
           /\ temporary_messages' = r.buf
           /\ upload_results' = r.res
           /\ upload_start_times' = r.ust
           /\ NoteTimeouts(temporary_messages, r.timed_out)
    /\ UNCHANGED << needs_upload, stale_results, upload_queue, file_cleaners,
                    pc, call, janitor, next_obs, next_upload, OutsideChat >>

\* observations come in through the local and the asynchronous path, are
\* flushed when enough of them are ready, and chat requests come in between
NextChat ==
    \/ \E n \in 0..MaxImgs, text \in BOOLEAN :
           \/ AddLocal(n, text)
           \/ AddAsync(n, text, FALSE)
    \/ ShouldFlush(FALSE)
    \/ AbsorbReady
    \/ AbsorbFinish
    \/ \E u \in UploadIds, result \in {"ok", "err"} : UploadWorker(u, result)
    \/ \E u \in UploadIds : Tick(u)
    \/ GetRecentImagesForChat

(* ------------------ wait_for_upload, try_resolve_upload ---------------- *)
NoWaiter == [state |-> "none", published |-> {}]

InitWait == waiters = [u \in UploadIds |-> NoWaiter]

\* upload_file_async, lines 198-211, and what its callers do with the
\* placeholder at once: upload_file (line 252) and _cleanup_file_after_upload
\* (accumulator line 645) call wait_for_upload on it, the other callers
\* leave it to try_resolve_upload
UploadFileAsync(wait) ==
    /\ next_upload < MaxUploads
    /\ upload_queue' = Append(upload_queue, next_upload + 1)
    /\ next_upload' = next_upload + 1
    /\ waiters' = IF wait
                  THEN [waiters EXCEPT ![next_upload + 1].state = "waiting"]
                  ELSE waiters
    /\ UNCHANGED << needs_upload, temporary_messages, upload_start_times,
                    upload_results, stale_results, file_cleaners, pc, call,
                    janitor, next_obs, outcomes, OutsideWait >>

\* the worker publishes the result of a job
PublishResult(u, result) ==
    /\ UploadWorker(u, result)
    /\ UNCHANGED waiters

\* wait_for_upload, one turn of the loop of lines 221-230, which looks into
\* the table under _upload_results_lock: a file reference is returned, a
\* stored exception is removed and raised; with neither the call sleeps,
\* or, when timeout seconds have passed (expired), leaves the loop and
\* raises TimeoutError at line 232.  The 0.1 s between the last look and
\* the TimeoutError count as no time.  published notes what the worker had
\* published for the upload when the call ended
WaitForUpload(u, expired) ==
    /\ waiters[u].state = "waiting"
    /\ IF u \in DOMAIN upload_results
       THEN IF upload_results[u] = "err"
            THEN /\ upload_results' = Drop(upload_results, {u})
                 /\ waiters' = [waiters EXCEPT
                                   ![u] = [state |-> "raised", published |-> outcomes[u]]]
            ELSE /\ waiters' = [waiters EXCEPT
                                   ![u] = [state |-> "returned", published |-> outcomes[u]]]
                 /\ UNCHANGED upload_results
       ELSE /\ expired
            /\ waiters' = [waiters EXCEPT
                              ![u] = [state |-> "timeout", published |-> outcomes[u]]]
            /\ UNCHANGED upload_results
    /\ UNCHANGED << needs_upload, temporary_messages, upload_start_times,
                    stale_results, upload_queue, file_cleaners, pc, call, janitor,
                    next_obs, next_upload, outcomes, OutsideWait >>

\* another thread calls try_resolve_upload on the placeholder (the scans of
\* should_absorb_content, absorb_content_into_memory and
\* get_recent_images_for_chat do)
TryResolveUpload(u) ==
    /\ u \in 1..next_upload
    /\ upload_results' = try_resolve_upload(Placeholder(u), upload_results).res
    /\ UNCHANGED << needs_upload, temporary_messages, upload_start_times,
                    stale_results, upload_queue, file_cleaners, pc, call, janitor,
                    next_obs, next_upload, outcomes, waiters, OutsideWait >>

NextWait ==
    \/ \E wait \in BOOLEAN : UploadFileAsync(wait)
    \/ \E u \in UploadIds, result \in {"ok", "err"} : PublishResult(u, result)
    \/ \E u \in UploadIds, expired \in BOOLEAN : WaitForUpload(u, expired)
    \/ \E u \in UploadIds : TryResolveUpload(u)

(* ------------------ _initialize_gemini_components ---------------------- *)
InitStartup ==
    /\ blob_store = {}
    /\ startup = "down"
    /\ mappings_at_startup = {}

\* the blob that a cloud file id refers to
BlobOf(cloud_file_id) == cloud_file_id[2]

\* an earlier run of the program uploaded an image: the blob is in the
\* provider's store and its mapping is in the Store
EarlierUpload(u) ==
    /\ startup = "down"
    /\ upload_state[u] = "queued"
    /\ blob_store' = blob_store \cup {u}
    /\ cloud_file_mapping' = add_mapping(cloud_file_mapping, FileUri(u))
    /\ upload_state' = [upload_state EXCEPT ![u] = "uploaded"]
    /\ UNCHANGED << flushed_uploads, startup, mappings_at_startup, OutsideStartup >>

\* a blob leaves the provider's store without the program's doing: the
\* provider expires it, or a call unrelated to the program deletes it
BlobExpires(u) ==
    /\ u \in blob_store
    /\ blob_store' = blob_store \ {u}
    /\ UNCHANGED << MappingVars, startup, mappings_at_startup, OutsideStartup >>

\* CloudFileMappingManager.delete_mapping(cloud_file_id)
delete_mapping(rows, cloud_file_id) == Drop(rows, {cloud_file_id})

\* delete_mapping called for each of ids
RECURSIVE DeleteMappings(_, _)
DeleteMappings(rows, ids) ==
    IF ids = {} THEN rows
    ELSE LET id == CHOOSE x \in ids : TRUE
         IN  DeleteMappings(delete_mapping(rows, id), ids \ {id})

\* lines 442-443: existing_files = [], the call of files.list() is commented
\* out; existing_image_names = set([file.name for file in existing_files])
existing_image_names == {}

\* a reconciliation that deletes no mapping
KeepAllMappings(rows, names) == rows

\* lines 446-450: every mapping whose cloud file id is not among names is
\* deleted from the Store
ReconcileMappings(rows, names) ==
    DeleteMappings(rows, {id \in DOMAIN rows : id \notin names})

\* _initialize_gemini_components.  Without an api key it returns False at
\* line 426.  With one it reconciles the Store with existing_image_names and
\* returns True; when a call to the Store raises on the way (after the
\* mappings in deleted are gone), the except clause of line 479 returns
\* False.
InitializeGeminiComponents(has_key, raises, deleted) ==
    /\ startup = "down"
    /\ mappings_at_startup' = DOMAIN cloud_file_mapping
    /\ IF ~has_key
       THEN /\ startup' = "failed"
            /\ UNCHANGED cloud_file_mapping
       ELSE IF raises
            THEN /\ deleted \subseteq
                        {id \in DOMAIN cloud_file_mapping : id \notin existing_image_names}
                 /\ cloud_file_mapping' = DeleteMappings(cloud_file_mapping, deleted)
                 /\ startup' = "failed"
            ELSE /\ cloud_file_mapping' =
                        ReconcileMappings(cloud_file_mapping, existing_image_names)
                 /\ startup' = "ok"
    /\ UNCHANGED << blob_store, upload_state, flushed_uploads, OutsideStartup >>

NextStartup ==
    \/ \E u \in UploadIds : EarlierUpload(u)
    \/ \E u \in UploadIds : BlobExpires(u)
    \/ \E has_key \in BOOLEAN, raises \in BOOLEAN,
          deleted \in SUBSET {FileUri(u) : u \in UploadIds} :
           InitializeGeminiComponents(has_key, raises, deleted)

(* ----------------------- clear_old_screenshots ------------------------ *)
\* the threads that call send_message, and the upload workers
Senders == {<< "sender", i >> : i \in 1..MaxSenders}
Workers == {<< "worker", i >> : i \in 1..NumUploadWorkers}

\* the holder of a lock that is free
NoThread == << "none", 0 >>

NoClear == [called |-> FALSE, queue_length |-> 0, before |-> << >>, after |-> << >>]

InitCloud ==
    /\ uri_to_create_time = << >>
    /\ deleting = {}
    /\ lock_holder = NoThread
    /\ last_clear = NoClear

\* a thread that calls send_message enters a "with
\* self._temporary_messages_lock" block of the accumulator
AcquireLock(t) ==
    /\ lock_holder = NoThread
    /\ lock_holder' = t
    /\ UNCHANGED << uri_to_create_time, deleting, last_clear, OutsideCloud >>

\* and leaves it
ReleaseLock(t) ==
    /\ lock_holder = t
    /\ lock_holder' = NoThread
    /\ UNCHANGED << uri_to_create_time, deleting, last_clear, OutsideCloud >>

\* _upload_worker, line 167: the worker w stores the create_time that the
\* provider gave the file under the file's uri.  The line is in no with
\* block and the worker takes no lock of the accumulator
InsertByWorker(w, u, create_time) ==
    /\ FileUri(u) \notin DOMAIN uri_to_create_time
    /\ FileName(u) \notin deleting
    /\ uri_to_create_time' = Put(uri_to_create_time, FileUri(u), create_time)
    /\ UNCHANGED << deleting, lock_holder, last_clear, OutsideCloud >>

\* sorted(items, key=create_time)[:k]: a set of k entries none of which is
\* younger than an entry left out.  Among entries of equal create_time
\* sorted keeps the order of insertion, which the table does not record
OldestFiles(table, k) ==
    CHOOSE S \in SUBSET DOMAIN table :
        /\ Cardinality(S) = k
        /\ \A x \in S, y \in (DOMAIN table) \ S : table[x] <= table[y]

\* clear_old_screenshots without the test of the queue length
clear_old_screenshotsBusyQueue(table, queue_length) ==
    IF Cardinality(DOMAIN table) > MAXIMUM_NUM_IMAGES_IN_CLOUD
    THEN OldestFiles(table, Cardinality(DOMAIN table) - MAXIMUM_NUM_IMAGES_IN_CLOUD)
    ELSE {}

\* clear_old_screenshots, lines 826-834: the uris of files_to_delete
clear_old_screenshots(table, queue_length) ==
    IF queue_length > 0 THEN {}
    ELSE IF Cardinality(DOMAIN table) > MAXIMUM_NUM_IMAGES_IN_CLOUD
         THEN OldestFiles(table, Cardinality(DOMAIN table) - MAXIMUM_NUM_IMAGES_IN_CLOUD)
         ELSE {}

\* clear_old_screenshots, called by the thread t at the end of a
\* send_message that has absorbed content: the entries of files_to_delete
\* are deleted from the table and their file names are handed to a
\* delete_files thread.  No line of it is in a with block
ClearOldScreenshots(t, queue_length) ==
    /\ LET files_to_delete == clear_old_screenshots(uri_to_create_time, queue_length)
       IN  /\ uri_to_create_time' = Drop(uri_to_create_time, files_to_delete)
           /\ deleting' = deleting \cup {FileName(BlobOf(x)) : x \in files_to_delete}
           /\ last_clear' = [called |-> TRUE, queue_length |-> queue_length,
                             before |-> uri_to_create_time,
                             after |-> Drop(uri_to_create_time, files_to_delete)]
    /\ UNCHANGED << lock_holder, OutsideCloud >>

NextCloud ==
    \/ \E t \in Senders : AcquireLock(t)
    \/ \E t \in Senders : ReleaseLock(t)
    \/ \E w \in Workers, u \in UploadIds, create_time \in 1..MaxCreateTime :
           InsertByWorker(w, u, create_time)
    \/ \E t \in Senders, queue_length \in 0..MaxQueueLength :
           ClearOldScreenshots(t, queue_length)

(* ----------------- memory_tools.py: the core memory tools -------------- *)
\* the characters of the modelled strings; a string is a sequence of them
Alphabet == {"a", " ", "\n"}
Whitespace == {" ", "\n"}

Strings(n) == UNION {[1..k -> Alphabet] : k \in 0..n}

\* the block that the tools are called on
Labels == {"persona"}

InitCore ==
    /\ core_memory = [label \in Labels |-> << >>]
    /\ last_tool = [op |-> "none", label |-> "none", args |-> << >>, error |-> FALSE]

\* str.lstrip()
RECURSIVE lstrip(_)
lstrip(s) ==
    IF s # << >> /\ Head(s) \in Whitespace THEN lstrip(Tail(s)) ELSE s

\* str.rstrip()
RECURSIVE rstrip(_)
rstrip(s) ==
    IF s # << >> /\ s[Len(s)] \in Whitespace
    THEN rstrip(SubSeq(s, 1, Len(s) - 1)) ELSE s

\* str.strip()
strip(s) == rstrip(lstrip(s))

\* old_content in current_value: the search goes through the positions from
\* the left
RECURSIVE Contains(_, _)
Contains(s, sub) ==
    IF Len(s) < Len(sub) THEN FALSE
    ELSE IF SubSeq(s, 1, Len(sub)) = sub THEN TRUE
    ELSE Contains(Tail(s), sub)

\* str.replace(old, new) for an empty old: new goes before every character
\* and behind the last one
RECURSIVE replace_empty(_, _)
replace_empty(s, new) ==
    IF s = << >> THEN new
    ELSE new \o << Head(s) >> \o replace_empty(Tail(s), new)

\* str.replace(old, new): from the left, every occurrence of old that does
\* not overlap an occurrence replaced before it
RECURSIVE replace(_, _, _)
replace(s, old, new) ==
    IF old = << >> THEN replace_empty(s, new)
    ELSE IF Len(s) < Len(old) THEN s
    ELSE IF SubSeq(s, 1, Len(old)) = old
         THEN new \o replace(SubSeq(s, Len(old) + 1, Len(s)), old, new)
         ELSE << Head(s) >> \o replace(Tail(s), old, new)

\* Memory.update_block_value(label, value)
update_block_value(memory, label, value) == [memory EXCEPT ![label] = value]

\* core_memory_append that does not strip
core_memory_appendUnstripped(current_value, content) ==
    current_value \o << "\n" >> \o content

\* core_memory_append, lines 20-21: new_value
core_memory_append(current_value, content) ==
    strip(current_value \o << "\n" >> \o content)

\* core_memory_replace that replaces without the test of line 40
core_memory_replaceUnchecked(current_value, old_content, new_content) ==
    [error |-> FALSE, value |-> replace(current_value, old_content, new_content)]

\* core_memory_replace, lines 39-42: the ValueError, or new_value
core_memory_replace(current_value, old_content, new_content) ==
    IF ~Contains(current_value, old_content)
    THEN [error |-> TRUE, value |-> current_value]
    ELSE [error |-> FALSE, value |-> replace(current_value, old_content, new_content)]

\* the tool call core_memory_append(label, content)
CoreMemoryAppend(label, content) ==
    /\ LET new_value == core_memory_append(core_memory[label], content)
       IN  /\ Len(new_value) <= MaxValueLen
           /\ core_memory' = update_block_value(core_memory, label, new_value)
    /\ last_tool' = [op |-> "append", label |-> label, args |-> << content >>,
                     error |-> FALSE]
    /\ UNCHANGED OutsideCore

\* the tool call core_memory_replace(label, old_content, new_content): with
\* the ValueError the block is not written
CoreMemoryReplace(label, old_content, new_content) ==
    /\ LET r == core_memory_replace(core_memory[label], old_content, new_content)
       IN  /\ Len(r.value) <= MaxValueLen
           /\ core_memory' = IF r.error THEN core_memory
                             ELSE update_block_value(core_memory, label, r.value)
           /\ last_tool' = [op |-> "replace", label |-> label,
                            args |-> << old_content, new_content >>,
                            error |-> r.error]
    /\ UNCHANGED OutsideCore

NextCore ==
    \/ \E label \in Labels, content \in Strings(MaxContentLen) :
           CoreMemoryAppend(label, content)
    \/ \E label \in Labels, old_content, new_content \in Strings(MaxContentLen) :
           CoreMemoryReplace(label, old_content, new_content)

(* ------------------------ the memory managers -------------------------- *)
Managers == {"episodic", "semantic", "procedural", "resource", "knowledge_vault"}

\* the managers whose list functions are searched
SearchManagers == {"semantic", "procedural", "resource"}

\* the values of the searched field: strings of letters in both cases
StoreTexts == {<< "A" >>, << "a", "b" >>}

NoSearch == [called |-> FALSE, manager |-> "none", query |-> << >>, limit |-> 0,
             result |-> << >>]
NoDelete == [called |-> FALSE, manager |-> "none", id |-> 0, error |-> FALSE]
NoReplace == [called |-> FALSE, manager |-> "none", event_ids |-> << >>, new_ids |-> {},
              error |-> FALSE]

InitStore ==
    /\ tables = [manager \in Managers |-> << >>]
    /\ next_item = 0
    /\ deleted_ids = {}
    /\ last_search = NoSearch
    /\ last_delete = NoDelete
    /\ last_replace = NoReplace

RowIds(rows) == {rows[i].id : i \in DOMAIN rows}

\* str.lower() and SQL LOWER()
lower(s) == [i \in DOMAIN s |-> IF s[i] = "A" THEN "a" ELSE s[i]]

\* rows[:n]
FirstRows(rows, n) == SubSeq(rows, 1, IF n < Len(rows) THEN n ELSE Len(rows))

\* rows[-n:] for n > 0
LastRows(rows, n) == SubSeq(rows, IF n < Len(rows) THEN Len(rows) - n + 1 ELSE 1, Len(rows))

\* WHERE LOWER(field) contains LOWER(query), with no ORDER BY: the rows come
\* in the order of the table
StringMatch(rows, query) ==
    LET Matches(row) == Contains(lower(row.text), lower(query))
    IN  SelectSeq(rows, Matches)

\* list_semantic_items: with an empty query every row of the table, lines
\* 92-95; with string_match the first limit matching rows, lines 127-164
list_semantic_items(rows, query, limit) ==
    IF query = << >> THEN rows
    ELSE FirstRows(StringMatch(rows, query), limit)

\* list_procedures: as list_semantic_items, lines 94-97 and 125-162
list_procedures(rows, query, limit) ==
    IF query = << >> THEN rows
    ELSE FirstRows(StringMatch(rows, query), limit)

\* list_resources: with an empty query the last limit rows, lines 87-90;
\* with string_match the first limit matching rows, lines 105-152
list_resources(rows, query, limit) ==
    IF query = << >> THEN LastRows(rows, limit)
    ELSE FirstRows(StringMatch(rows, query), limit)

\* create_item: a row under a new id.  The history of a call is forgotten
\* when the next call is made
InsertItem(manager, text) ==
    /\ next_item < MaxItems
    /\ tables' = [tables EXCEPT
                     ![manager] = Append(@, [id |-> next_item + 1, text |-> text])]
    /\ next_item' = next_item + 1
    /\ last_search' = NoSearch
    /\ last_delete' = NoDelete
    /\ last_replace' = NoReplace
    /\ UNCHANGED << deleted_ids, OutsideStore >>

\* a search with string_match, or with an empty query
Search(manager, query, limit) ==
    /\ LET rows == tables[manager]
           found == CASE manager = "semantic" -> list_semantic_items(rows, query, limit)
                      [] manager = "procedural" -> list_procedures(rows, query, limit)
                      [] manager = "resource" -> list_resources(rows, query, limit)
       IN  last_search' = [called |-> TRUE, manager |-> manager, query |-> query,
                           limit |-> limit,
                           result |-> [i \in DOMAIN found |-> found[i].id]]
    /\ last_delete' = NoDelete
    /\ last_replace' = NoReplace
    /\ UNCHANGED << tables, next_item, deleted_ids, OutsideStore >>

\* a delete by id that ends without error when there is no such row
delete_item_by_idSilently(rows, id) ==
    LET Others(row) == row.id # id
    IN  [error |-> FALSE, rows |-> SelectSeq(rows, Others)]

\* delete_semantic_item_by_id, delete_procedure_by_id, delete_resource_by_id: read raises
\* NoResultFound when there is no row of that id, else hard_delete removes it
delete_item_by_id(rows, id) ==
    LET Others(row) == row.id # id
    IN  IF id \notin RowIds(rows)
        THEN [error |-> TRUE, rows |-> rows]
        ELSE [error |-> FALSE, rows |-> SelectSeq(rows, Others)]

DeleteByID(manager, id) ==
    /\ LET r == delete_item_by_id(tables[manager], id)
       IN  /\ tables' = [tables EXCEPT ![manager] = r.rows]
           /\ last_delete' = [called |-> TRUE, manager |-> manager, id |-> id,
                              error |-> r.error]
           /\ deleted_ids' = IF r.error THEN deleted_ids ELSE deleted_ids \cup {id}
    /\ last_search' = NoSearch
    /\ last_replace' = NoReplace
    /\ UNCHANGED << next_item, OutsideStore >>

\* EpisodicMemoryManager.delete_event_by_id, as the delete by id of the
\* other managers
delete_event_by_id(rows, id) == delete_item_by_id(rows, id)

\* the second loop of episodic_memory_replace, lines 105-106: the events
\* are deleted one after the other, an exception ends the loop
RECURSIVE DeleteEvents(_, _)
DeleteEvents(rows, event_ids) ==
    IF event_ids = << >> THEN [error |-> FALSE, rows |-> rows]
    ELSE LET r == delete_event_by_id(rows, Head(event_ids))
         IN  IF r.error THEN r ELSE DeleteEvents(r.rows, Tail(event_ids))

\* the third loop, lines 108-117: insert_event for each new item
InsertEvents(rows, texts, first_id) ==
    rows \o [i \in DOMAIN texts |-> [id |-> first_id + i - 1, text |-> texts[i]]]

\* episodic_memory_replace: the first loop raises when an id is not found;
\* then the events are deleted and the new items inserted
episodic_memory_replace(rows, event_ids, new_items, first_id) ==
    IF \E i \in DOMAIN event_ids : event_ids[i] \notin RowIds(rows)
    THEN [error |-> TRUE, rows |-> rows, inserted |-> 0]
    ELSE LET d == DeleteEvents(rows, event_ids)
         IN  IF d.error
             THEN [error |-> TRUE, rows |-> d.rows, inserted |-> 0]
             ELSE [error |-> FALSE,
                   rows |-> InsertEvents(d.rows, new_items, first_id),
                   inserted |-> Len(new_items)]

EpisodicMemoryReplace(event_ids, new_items) ==
    /\ next_item + Len(new_items) <= MaxItems
    /\ LET r == episodic_memory_replace(tables["episodic"], event_ids, new_items,
                                        next_item + 1)
       IN  /\ tables' = [tables EXCEPT !["episodic"] = r.rows]
           /\ next_item' = next_item + r.inserted
           /\ last_replace' = [called |-> TRUE, manager |-> "episodic",
                               event_ids |-> event_ids,
                               new_ids |-> (next_item + 1)..(next_item + Len(new_items)),
                               error |-> r.error]
    /\ last_search' = NoSearch
    /\ last_delete' = NoDelete
    /\ UNCHANGED << deleted_ids, OutsideStore >>

ItemIds == 1..MaxItems

EventIdLists == UNION {[1..k -> ItemIds] : k \in 1..2}

NewItemLists == UNION {[1..k -> StoreTexts] : k \in 0..1}

NextStore ==
    \/ \E manager \in SearchManagers, text \in StoreTexts : InsertItem(manager, text)
    \/ \E manager \in SearchManagers, query \in StoreTexts \cup {<< >>},
          limit \in 1..MaxLimit :
           Search(manager, query, limit)
    \/ \E manager \in SearchManagers, id \in ItemIds : DeleteByID(manager, id)

NextEpisodic ==
    \/ \E text \in StoreTexts : InsertItem("episodic", text)
    \/ \E event_ids \in EventIdLists, new_items \in NewItemLists :
           EpisodicMemoryReplace(event_ids, new_items)

\* the managers behind semantic_memory_update, procedural_memory_update,
\* resource_memory_update and knowledge_vault_update
UpdateManagers == {"semantic", "procedural", "resource", "knowledge_vault"}

\* the keyword under which the update tool passes an old id to the delete
\* method of the manager, when that is the name of the method's parameter
DeleteKeywordOfTheMethod(manager) ==
    CASE manager = "semantic" -> "id"
      [] manager = "procedural" -> "id"
      [] manager = "resource" -> "item_id"
      [] manager = "knowledge_vault" -> "knowledge_vault_item_id"

\* the keyword under which the update tool passes an old id: lines 260, 214,
\* 169 and 307 of memory_tools.py
DeleteKeyword(manager) ==
    CASE manager = "semantic" -> "semantic_item_id"
      [] manager = "procedural" -> "procedure_id"
      [] manager = "resource" -> "resource_id"
      [] manager = "knowledge_vault" -> "knowledge_id"

\* the parameter of delete_semantic_item_by_id, delete_procedure_by_id,
\* delete_resource_by_id and delete_knowledge_by_id
DeleteParameter(manager) ==
    CASE manager = "semantic" -> "id"
      [] manager = "procedural" -> "id"
      [] manager = "resource" -> "item_id"
      [] manager = "knowledge_vault" -> "knowledge_vault_item_id"

\* the call of the delete method with the id under the tool's keyword: a
\* keyword that the method does not have raises TypeError before the method
\* runs, else the method deletes the row or raises NoResultFound
DeleteOldId(manager, rows, old_id) ==
    IF DeleteKeyword(manager) # DeleteParameter(manager)
    THEN [raised |-> "TypeError", rows |-> rows]
    ELSE LET r == delete_item_by_id(rows, old_id)
         IN  [raised |-> IF r.error THEN "NoResultFound" ELSE "none", rows |-> r.rows]

\* the first loop of an update tool: the old ids are deleted one after the
\* other, an exception ends the loop and the tool
RECURSIVE DeleteOldIds(_, _, _)
DeleteOldIds(manager, rows, old_ids) ==
    IF old_ids = << >> THEN [raised |-> "none", rows |-> rows]
    ELSE LET r == DeleteOldId(manager, rows, Head(old_ids))
         IN  IF r.raised # "none" THEN r
             ELSE DeleteOldIds(manager, r.rows, Tail(old_ids))

\* the second loop: the insert method is called for each new item;
\* knowledge_vault_update calls insert_knowledge without its parameter
\* description, which raises TypeError
InsertNewItems(manager, rows, new_items, first_id) ==
    IF new_items = << >> THEN [raised |-> "none", rows |-> rows, inserted |-> 0]
    ELSE IF manager = "knowledge_vault"
         THEN [raised |-> "TypeError", rows |-> rows, inserted |-> 0]
         ELSE [raised |-> "none", rows |-> InsertEvents(rows, new_items, first_id),
               inserted |-> Len(new_items)]

\* semantic_memory_update, procedural_memory_update, resource_memory_update
\* and knowledge_vault_update
memory_update(manager, rows, old_ids, new_items, first_id) ==
    LET d == DeleteOldIds(manager, rows, old_ids)
    IN  IF d.raised # "none"
        THEN [raised |-> d.raised, rows |-> d.rows, inserted |-> 0]
        ELSE InsertNewItems(manager, d.rows, new_items, first_id)

MemoryUpdate(manager, old_ids, new_items) ==
    /\ next_item + Len(new_items) <= MaxStored
    /\ LET r == memory_update(manager, tables[manager], old_ids, new_items,
                              next_item + 1)
       IN  /\ tables' = [tables EXCEPT ![manager] = r.rows]
           /\ next_item' = next_item + r.inserted
           /\ last_replace' = [called |-> TRUE, manager |-> manager,
                               event_ids |-> old_ids,
                               new_ids |-> (next_item + 1)..(next_item + Len(new_items)),
                               error |-> r.raised # "none"]
    /\ last_search' = NoSearch
    /\ last_delete' = NoDelete
    /\ UNCHANGED << deleted_ids, OutsideStore >>

\* the text of the items of an update: the updates do not look at it
UpdateTexts == {<< "A" >>}

\* the lists of old ids: ids of stored items and ids that are not stored,
\* each at most once
OldIdLists ==
    {ids \in UNION {[1..k -> 1..(MaxStored + 1)] : k \in 0..2} :
        \A i, j \in DOMAIN ids : i # j => ids[i] # ids[j]}

UpdatedItemLists == UNION {[1..k -> UpdateTexts] : k \in 0..1}

\* an item is stored, as by the insert tool of the manager
StoreItem(manager, text) ==
    /\ next_item < MaxStored
    /\ InsertItem(manager, text)

NextUpdate ==
    \/ \E manager \in UpdateManagers, text \in UpdateTexts : StoreItem(manager, text)
    \/ \E manager \in UpdateManagers, old_ids \in OldIdLists,
          new_items \in UpdatedItemLists :
           MemoryUpdate(manager, old_ids, new_items)


(* ------------------------- the chat agent's reply ------------------------ *)
\* tool_call.arguments: a JSON object with the key message, a JSON object
\* without it, the JSON value null, and text that is not JSON
ArgumentTexts == {"{\"message\": \"hi\"}", "{}", "null", "{"}

\* a message of the reply that has no attribute tool_call
NoToolCall == "no tool_call"

\* the messages of a reply: tool returns, assistant messages and tool calls
ReplyMessages ==
    {[message_type |-> "tool_return_message", tool_call |-> NoToolCall],
     [message_type |-> "assistant_message", tool_call |-> NoToolCall]}
    \cup {[message_type |-> "tool_call_message", tool_call |-> a] : a \in ArgumentTexts}

\* what send_message_in_queue hands back: the string ERROR, an object with
\* no attribute messages, or a response with its messages
Responses ==
    {[kind |-> "ERROR", messages |-> << >>], [kind |-> "no messages", messages |-> << >>]}
    \cup {[kind |-> "response", messages |-> ms] :
            ms \in UNION {[1..n -> ReplyMessages] : n \in 0..MaxMessages}}

NoChat == [called |-> FALSE, response |-> [kind |-> "none", messages |-> << >>],
           raised |-> "none", returned |-> "none"]

InitReply ==
    /\ temporary_user_messages = << << >> >>
    /\ last_chat = NoChat

\* mirix.utils.parse_json: the parsed JSON value, or a JSONDecodeError
parse_json(text) ==
    CASE text = "{\"message\": \"hi\"}" ->
             [raised |-> "none", type |-> "dict", keys |-> {"message"}, message |-> "hi"]
      [] text = "{}" ->
             [raised |-> "none", type |-> "dict", keys |-> {}, message |-> "none"]
      [] text = "null" ->
             [raised |-> "none", type |-> "NoneType", keys |-> {}, message |-> "none"]
      [] OTHER ->
             [raised |-> "JSONDecodeError", type |-> "none", keys |-> {}, message |-> "none"]

\* the number of tool returns at the end of the reply, lines 1583-1588
RECURSIVE NumToolsCalled(_)
NumToolsCalled(messages) ==
    IF messages = << >> THEN 0
    ELSE IF messages[Len(messages)].message_type = "tool_return_message"
         THEN 1 + NumToolsCalled(SubSeq(messages, 1, Len(messages) - 1))
         ELSE 0

Returns(value) == [raised |-> "none", returned |-> value]
Raises(exception) == [raised |-> exception, returned |-> "none"]

\* the except clause of line 1605
CaughtExceptions == {"AttributeError", "KeyError", "IndexError", "JSONDecodeError"}

\* the try block of lines 1580-1606: exceptions of the four caught types
\* become ERROR_PARSING_EXCEPTION, any other exception leaves send_message
ParseReply(r) ==
    IF r.raised \in CaughtExceptions THEN Returns("ERROR_PARSING_EXCEPTION") ELSE r

\* lines 1583-1603: the tool call before the trailing tool returns and the
\* message argument of it
ReplyText(messages) ==
    LET back == NumToolsCalled(messages) * 2 + 1
    IN  IF back > Len(messages) THEN Raises("IndexError")
        ELSE LET message == messages[Len(messages) - back + 1]
             IN  IF message.tool_call = NoToolCall THEN Returns("ERROR_NO_TOOL_CALL")
                 ELSE LET parsed_args == parse_json(message.tool_call)
                      IN  IF parsed_args.raised # "none" THEN Raises(parsed_args.raised)
                          ELSE IF parsed_args.type # "dict" THEN Raises("TypeError")
                          ELSE IF "message" \notin parsed_args.keys
                               THEN Returns("ERROR_NO_MESSAGE_IN_ARGS")
                          ELSE Returns(parsed_args.message)

\* the chat branch of send_message after the reply arrived, lines 1572-1612
chat_reply(response) ==
    IF response.kind = "ERROR" THEN Returns("ERROR_RESPONSE_FAILED")
    ELSE IF response.kind = "no messages" \/ Len(response.messages) < 2
         THEN Returns("ERROR_INVALID_RESPONSE_STRUCTURE")
    ELSE ParseReply(ReplyText(response.messages))

ErrorTokens == {"ERROR_RESPONSE_FAILED", "ERROR_INVALID_RESPONSE_STRUCTURE",
                "ERROR_NO_TOOL_CALL", "ERROR_NO_MESSAGE_IN_ARGS",
                "ERROR_PARSING_EXCEPTION"}

\* add_user_conversation: the turn (the user's message and the assistant's
\* reply, one snippet) is added to the last batch
add_user_conversation(batches, snippet) ==
    [batches EXCEPT ![Len(batches)] = Append(@, snippet)]

\* parameters of get_recent_images_for_chat that include current_timestamp
RecentImagesParametersWithTimestamp == {"current_timestamp"}

\* the keywords of the call of get_recent_images_for_chat, line 1530
RecentImagesKeywords == {"current_timestamp"}

\* the parameters of get_recent_images_for_chat besides self
RecentImagesParameters == {}

\* send_message(memorizing=False).  With include_recent_screenshots the
\* recent images are asked for first, lines 1523-1530: a keyword that the
\* method does not have raises TypeError before the method runs, else the
\* method removes the timed out observations from the buffer.  Then the
\* request is sent and the reply is turned into the returned value; a reply
\* text is added to the conversation, lines 1558-1612
ChatSendMessage(response, include_recent_screenshots) ==
    /\ Len(temporary_user_messages[Len(temporary_user_messages)]) < MaxTurns
    /\ LET type_error == /\ include_recent_screenshots
                         /\ ~(RecentImagesKeywords \subseteq RecentImagesParameters)
           g == IF include_recent_screenshots /\ ~type_error
                THEN get_recent_images_for_chat(needs_upload, temporary_messages,
                                                upload_results, upload_start_times)
                ELSE [images |-> << >>, buf |-> temporary_messages,
                      res |-> upload_results, ust |-> upload_start_times,
                      timed_out |-> {}]
           r == IF type_error THEN Raises("TypeError") ELSE chat_reply(response)
       IN  /\ last_chat' = [called |-> TRUE,
                            response |-> IF type_error THEN NoChat.response
                                         ELSE response,
                            raised |-> r.raised, returned |-> r.returned]
           /\ temporary_user_messages' =
                  IF r.raised = "none" /\ r.returned \notin ErrorTokens
                  THEN add_user_conversation(temporary_user_messages, r.returned)
                  ELSE temporary_user_messages
           /\ temporary_messages' = g.buf
           /\ upload_results' = g.res
           /\ upload_start_times' = g.ust
           /\ NoteTimeouts(temporary_messages, g.timed_out)
    /\ UNCHANGED << needs_upload, stale_results, upload_queue, file_cleaners, pc,
                    call, janitor, next_obs, next_upload, OutsideReply >>

\* chat requests that do not ask for the recent screenshots
NextReply == \E response \in Responses : ChatSendMessage(response, FALSE)

\* one reply for each way in which the chat branch ends
RepliesOfEachKind ==
    LET tool_return == [message_type |-> "tool_return_message", tool_call |-> NoToolCall]
        assistant == [message_type |-> "assistant_message", tool_call |-> NoToolCall]
        Call(a) == [message_type |-> "tool_call_message", tool_call |-> a]
        Reply(ms) == [kind |-> "response", messages |-> ms]
    IN  {[kind |-> "ERROR", messages |-> << >>],
         [kind |-> "no messages", messages |-> << >>],
         Reply(<< assistant >>),
         Reply(<< assistant, assistant >>),
         Reply(<< Call("{}"), tool_return >>),
         Reply(<< assistant, Call("{}") >>),
         Reply(<< assistant, Call("{") >>),
         Reply(<< assistant, Call("null") >>),
         Reply(<< assistant, Call("{\"message\": \"hi\"}") >>)}

\* observations whose uploads do not end come in and time out, and chat
\* requests come in between, with and without the recent screenshots
NextChatTurn ==
    \/ AddAsync(1, FALSE, FALSE)
    \/ ShouldFlush(FALSE)
    \/ \E u \in UploadIds : Tick(u)
    \/ \E response \in RepliesOfEachKind, include_recent_screenshots \in BOOLEAN :
           ChatSendMessage(response, include_recent_screenshots)


(* ------------------ _send_to_memory_agents_separately ------------------- *)
\* memory_agent_types, lines 566-567
memory_agent_types == {"episodic_memory", "procedural_memory", "knowledge_vault",
                       "semantic_memory", "core_memory", "resource_memory"}

\* the messages that absorb_content_into_memory builds
Prompts == 1..MaxPrompts

InitFanout ==
    /\ fan_pc = "idle"
    /\ fan_prompt = 0
    /\ futures = [a \in memory_agent_types |-> "none"]
    /\ sent = [a \in memory_agent_types |-> 0]
    /\ collected = {}

\* absorb_content_into_memory reaches line 419 with its message; lines
\* 560-578: one payload for all, one send_message_in_queue call per memory
\* agent type submitted to the pool
SendToMemoryAgentsSeparately(message) ==
    /\ fan_pc \in {"idle", "returned", "raised"}
    /\ fan_pc' = "collecting"
    /\ fan_prompt' = message
    /\ futures' = [a \in memory_agent_types |-> "running"]
    /\ sent' = [a \in memory_agent_types |-> message]
    /\ collected' = {}
    /\ UNCHANGED OutsideFanout

\* the outcomes of a dispatch: a response, the string ERROR as response, or
\* an exception that leaves send_message_in_queue
DispatchOutcomes == {"response", "ERROR", "exception"}

\* a pool thread ends its send_message_in_queue call
DispatchEnds(a, outcome) ==
    /\ futures[a] = "running"
    /\ futures' = [futures EXCEPT ![a] = outcome]
    /\ UNCHANGED << fan_pc, fan_prompt, sent, collected, OutsideFanout >>

\* lines 580-582: as_completed yields a finished future and future.result()
\* returns its pair, or raises the exception of the call
FutureResult(a) ==
    /\ fan_pc = "collecting"
    /\ a \notin collected
    /\ futures[a] \in DispatchOutcomes
    /\ collected' = collected \cup {a}
    /\ fan_pc' = IF futures[a] = "exception" THEN "unwinding" ELSE fan_pc
    /\ UNCHANGED << fan_prompt, futures, sent, OutsideFanout >>

\* the exception leaves the with block of line 573: the pool is shut down
\* with wait=True, so the running calls are waited for; then the exception
\* leaves absorb_content_into_memory and send_message
FlushRaises ==
    /\ fan_pc = "unwinding"
    /\ \A a \in memory_agent_types : futures[a] # "running"
    /\ fan_pc' = "raised"
    /\ UNCHANGED << fan_prompt, futures, sent, collected, OutsideFanout >>

\* every result is taken: _send_to_memory_agents_separately returns, line
\* 444 runs _cleanup_processed_content and the flush returns
FlushCompletes ==
    /\ fan_pc = "collecting"
    /\ collected = memory_agent_types
    /\ fan_pc' = "returned"
    /\ UNCHANGED << fan_prompt, futures, sent, collected, OutsideFanout >>

NextFanout ==
    \/ \E message \in Prompts : SendToMemoryAgentsSeparately(message)
    \/ \E a \in memory_agent_types, outcome \in DispatchOutcomes : DispatchEnds(a, outcome)
    \/ \E a \in memory_agent_types : FutureResult(a)
    \/ FlushRaises
    \/ FlushCompletes


(* --------------------------- set_memory_model --------------------------- *)
\* ALLOWED_MEMORY_MODELS, line 645
ALLOWED_MEMORY_MODELS == {"gemini-2.0-flash", "gemini-2.5-flash-lite", "gemini-2.5-flash"}

\* OPENAI_MODELS of mirix.agent.app_constants, one of them
OPENAI_MODELS == {"gpt-4o"}

\* the model names that set_memory_model is called with
ModelNames == ALLOWED_MEMORY_MODELS \cup OPENAI_MODELS \cup {"my-model"}

\* memory_agent_names, lines 708-718
memory_agent_names == {"episodic_memory_agent", "procedural_memory_agent",
                       "knowledge_vault_agent", "meta_memory_agent",
                       "semantic_memory_agent", "core_memory_agent",
                       "resource_memory_agent", "reflexion_agent", "background_agent"}

\* the agents that client.list_agents() returns
AgentNames == memory_agent_names \cup {"chat_agent"}

\* custom_agent_config: None, a dict with model_endpoint, a dict without it
CustomAgentConfigs == {"None", "with model_endpoint", "without model_endpoint"}

\* the keys of the agent_config that the wrapper was constructed with
agent_config == {"agent_name", "model_name"}

DefaultConfig == [model |-> "default", model_endpoint_type |-> "default"]

NoSet == [called |-> FALSE, new_model |-> "none", custom_agent_config |-> "None",
          outcome |-> "none"]

InitModel ==
    /\ google_client = FALSE
    /\ memory_model_name = "unset"
    /\ llm_config = [a \in AgentNames |-> DefaultConfig]
    /\ last_set = NoSet

\* the Gemini client is created with an API key, or dropped when that fails
SetGeminiClient(initialized) ==
    /\ google_client' = initialized
    /\ last_set' = NoSet
    /\ UNCHANGED << memory_model_name, llm_config, OutsideModel >>

\* set_memory_model, lines 641-738: the outcome, the LLM configs of the
\* agents afterwards and whether memory_model_name is assigned
set_memory_model(new_model, custom_agent_config, configs, gemini) ==
    LET Update(type) ==
            [outcome |-> "success", changed |-> TRUE,
             configs |-> [a \in DOMAIN configs |->
                             IF a \in memory_agent_names
                             THEN [model |-> new_model, model_endpoint_type |-> type]
                             ELSE configs[a]]]
        Unchanged(outcome) == [outcome |-> outcome, configs |-> configs, changed |-> FALSE]
    IN  IF new_model \notin ALLOWED_MEMORY_MODELS
        THEN IF new_model \in OPENAI_MODELS THEN Update("openai")
             ELSE IF custom_agent_config # "None"
                  THEN IF custom_agent_config = "with model_endpoint"
                       THEN Update("openai") ELSE Unchanged("AssertionError")
             ELSE IF "model_endpoint" \in agent_config
                  THEN Update("openai") ELSE Unchanged("AssertionError")
        ELSE IF ~gemini THEN Unchanged("missing_keys")
             ELSE Update("google_ai")

SetMemoryModel(new_model, custom_agent_config) ==
    /\ LET r == set_memory_model(new_model, custom_agent_config, llm_config,
                                 google_client)
       IN  /\ llm_config' = r.configs
           /\ memory_model_name' = IF r.changed THEN new_model ELSE memory_model_name
           /\ last_set' = [called |-> TRUE, new_model |-> new_model,
                           custom_agent_config |-> custom_agent_config,
                           outcome |-> r.outcome]
    /\ UNCHANGED << google_client, OutsideModel >>

NextModel ==
    \/ \E initialized \in BOOLEAN : SetGeminiClient(initialized)
    \/ \E new_model \in ModelNames, custom_agent_config \in CustomAgentConfigs :
           SetMemoryModel(new_model, custom_agent_config)


(* ---------------------- _upload_worker and its retries ------------------ *)
Jobs == 1..MaxJobs

IdleWorker == [pc |-> "idle", job |-> 0, upload_file |-> "none", attempt |-> 0]

InitRetry ==
    /\ next_job = 0
    /\ worker = IdleWorker
    /\ attempts = [j \in Jobs |-> [compressed |-> 0, original |-> 0]]
    /\ results = [j \in Jobs |-> << >>]

\* lines 176-188: the result, a file reference or the exception, is stored
\* under the uuid of the job and the worker goes back to the queue
StoreResult(result) ==
    /\ results' = [results EXCEPT ![worker.job] = Append(@, result)]
    /\ worker' = IdleWorker

\* lines 71-88: a job is taken from the queue.  With a mapping for the file
\* the existing file reference is the result; else the compressed file is
\* uploaded when there is one, the original file when there is none
TakeJob(existing, compressed) ==
    /\ worker.pc = "idle"
    /\ next_job < MaxJobs
    /\ next_job' = next_job + 1
    /\ IF existing
       THEN /\ results' = [results EXCEPT ![next_job + 1] = Append(@, "file_ref")]
            /\ worker' = IdleWorker
       ELSE /\ worker' = [pc |-> "upload", job |-> next_job + 1,
                          upload_file |-> IF compressed THEN "compressed" ELSE "original",
                          attempt |-> 0]
            /\ UNCHANGED results
    /\ UNCHANGED << attempts, OutsideRetry >>

\* the retry loops with one attempt more in each
AfterFailureOneMore(upload_file, attempt) ==
    IF attempt < max_retries
    THEN [upload_file |-> upload_file, attempt |-> attempt + 1]
    ELSE IF upload_file = "compressed"
         THEN [upload_file |-> "fallback", attempt |-> 0]
         ELSE [upload_file |-> "none", attempt |-> 0]

\* lines 118-157: what follows a failed attempt.  Before the last attempt
\* of a loop the next attempt; after the last attempt at the compressed
\* file the fallback loop over the original file, lines 127-153; after the
\* last attempt at the original file the exception of line 156 or 159
AfterFailure(upload_file, attempt) ==
    IF attempt < max_retries - 1
    THEN [upload_file |-> upload_file, attempt |-> attempt + 1]
    ELSE IF upload_file = "compressed"
         THEN [upload_file |-> "fallback", attempt |-> 0]
         ELSE [upload_file |-> "none", attempt |-> 0]

\* the attempt has failed: the next attempt, or the exception is stored
AttemptFailed ==
    LET next == AfterFailure(worker.upload_file, worker.attempt)
    IN  IF next.upload_file = "none"
        THEN StoreResult("exception")
        ELSE /\ worker' = [worker EXCEPT !.pc = "upload",
                                         !.upload_file = next.upload_file,
                                         !.attempt = next.attempt]
             /\ UNCHANGED results

\* the file of the attempt: the fallback loop uploads the original file
FileOf(upload_file) == IF upload_file = "compressed" THEN "compressed" ELSE "original"

\* lines 100-116 and 130-148: one call of files.upload in an executor of
\* its own.  The call returns a file reference within upload_timeout, or it
\* raises, or future.result(timeout=upload_timeout) times out
UploadAttempt(outcome) ==
    /\ worker.pc = "upload"
    /\ attempts' = [attempts EXCEPT ![worker.job][FileOf(worker.upload_file)] = @ + 1]
    /\ CASE outcome = "file_ref" -> StoreResult("file_ref")
         [] outcome = "raises" -> AttemptFailed
         [] outcome = "timeout" ->
                /\ worker' = [worker EXCEPT !.pc = "shutdown"]
                /\ UNCHANGED results
    /\ UNCHANGED << next_job, OutsideRetry >>

\* after a timeout the exception leaves the with block of line 102 (132):
\* the executor is shut down with wait=True, and the worker goes on when the
\* upload call, which future.cancel() cannot stop, has returned
UploadCallReturns ==
    /\ worker.pc = "shutdown"
    /\ AttemptFailed
    /\ UNCHANGED << next_job, attempts, OutsideRetry >>

NextRetry ==
    \/ \E existing, compressed \in BOOLEAN : TakeJob(existing, compressed)
    \/ \E outcome \in {"file_ref", "raises", "timeout"} : UploadAttempt(outcome)
    \/ UploadCallReturns


(* ------------------------- trigger_memory_update ------------------------ *)
\* the memory types that trigger_memory_update knows, lines 340-351
MemoryTypes == {"core", "episodic", "resource", "procedural", "knowledge_vault",
                "semantic"}

\* the agent type of a memory type, lines 340-351
AgentTypeOf(memory_type) ==
    CASE memory_type = "core" -> "core_memory_agent"
      [] memory_type = "episodic" -> "episodic_memory_agent"
      [] memory_type = "resource" -> "resource_memory_agent"
      [] memory_type = "procedural" -> "procedural_memory_agent"
      [] memory_type = "knowledge_vault" -> "knowledge_vault_agent"
      [] memory_type = "semantic" -> "semantic_memory_agent"

\* the instructions of the meta memory manager
Instructions == {"i1", "i2"}

\* user_message['message'] as handed to the tool: the prompt of the flush
OriginalPrompt == << "prompt" >>

NoTrigger == [called |-> FALSE, memory_types |-> << >>, instructions |-> << >>,
              requests |-> << >>]

InitTrigger == last_trigger = NoTrigger

\* lines 338-357: for each memory type in turn the instruction is appended
\* to user_message['message'], which is kept for the next memory type, and
\* the message is sent to the agent of that type (client.list_agents() holds
\* one agent of each type)
RECURSIVE SendToEach(_, _, _, _)
SendToEach(message, memory_types, instructions, idx) ==
    IF idx > Len(memory_types) THEN << >>
    ELSE LET with_instruction == Append(message, instructions[idx])
         IN  << [agent_type |-> AgentTypeOf(memory_types[idx]),
                 message |-> with_instruction] >>
             \o SendToEach(with_instruction, memory_types, instructions, idx + 1)

trigger_memory_update(user_message, memory_types, instructions) ==
    SendToEach(user_message, memory_types, instructions, 1)

TriggerMemoryUpdate(memory_types, instructions) ==
    /\ Len(memory_types) = Len(instructions)
    /\ last_trigger' = [called |-> TRUE, memory_types |-> memory_types,
                        instructions |-> instructions,
                        requests |-> trigger_memory_update(OriginalPrompt, memory_types,
                                                           instructions)]
    /\ UNCHANGED OutsideTrigger

NextTrigger ==
    \E n \in 1..MaxTypes :
        \E memory_types \in [1..n -> MemoryTypes], instructions \in [1..n -> Instructions] :
            TriggerMemoryUpdate(memory_types, instructions)


(* -------------------------- reflextion_on_memory ------------------------ *)
\* the dispatches of reflextion_on_memory in the order of the code: lines
\* 882-982 (redundancy), 984-1024 (conflict), 1026-1107 (pattern)
ReflexionDispatches ==
    << [phase |-> "redundancy", agent_type |-> "episodic_memory"],
       [phase |-> "redundancy", agent_type |-> "semantic_memory"],
       [phase |-> "redundancy", agent_type |-> "core_memory"],
       [phase |-> "redundancy", agent_type |-> "resource_memory"],
       [phase |-> "redundancy", agent_type |-> "procedural_memory"],
       [phase |-> "redundancy", agent_type |-> "knowledge_vault"],
       [phase |-> "conflict", agent_type |-> "reflexion"],
       [phase |-> "pattern", agent_type |-> "reflexion"],
       [phase |-> "pattern", agent_type |-> "semantic_memory"],
       [phase |-> "pattern", agent_type |-> "meta_memory"] >>

DispatchesOf(phase) ==
    {i \in DOMAIN ReflexionDispatches : ReflexionDispatches[i].phase = phase}

InitReflexion ==
    /\ reflexion_pc = 0
    /\ calls_running = {}
    /\ reflexion_results = [i \in DOMAIN ReflexionDispatches |-> "none"]

\* reflextion_on_memory is called, lines 846-858
ReflextionOnMemory ==
    /\ reflexion_pc = 0
    /\ reflexion_pc' = 1
    /\ reflexion_results' = [i \in DOMAIN ReflexionDispatches |-> "none"]
    /\ UNCHANGED << calls_running, OutsideReflexion >>

\* dispatches handed to a pool: the next one starts while others run
MayStartInParallel(running) == TRUE

\* each send_message_in_queue call is a statement of the calling thread: the
\* next dispatch starts when the call before it has returned or raised
MayStart(running) == running = {}

\* the next send_message_in_queue call begins
StartDispatch ==
    /\ reflexion_pc \in DOMAIN ReflexionDispatches
    /\ MayStart(calls_running)
    /\ calls_running' = calls_running \cup {reflexion_pc}
    /\ reflexion_pc' = reflexion_pc + 1
    /\ UNCHANGED << reflexion_results, OutsideReflexion >>

\* the call returns its response, or raises and the except clause stores
\* the error as the result
EndDispatch(i, outcome) ==
    /\ i \in calls_running
    /\ calls_running' = calls_running \ {i}
    /\ reflexion_results' = [reflexion_results EXCEPT ![i] = outcome]
    /\ UNCHANGED << reflexion_pc, OutsideReflexion >>

\* lines 871-880: the final summary is returned
ReflexionReturns ==
    /\ reflexion_pc = Len(ReflexionDispatches) + 1
    /\ calls_running = {}
    /\ reflexion_pc' = 0
    /\ UNCHANGED << calls_running, reflexion_results, OutsideReflexion >>

NextReflexion ==
    \/ ReflextionOnMemory
    \/ StartDispatch
    \/ \E i \in DOMAIN ReflexionDispatches, outcome \in {"response", "Error"} :
           EndDispatch(i, outcome)
    \/ ReflexionReturns


(* ---------------------- _temporary_messages_lock ------------------------ *)
LockThreads == 1..MaxLockThreads

\* the operations of the accumulator that take the lock
LockedOps == {"add_message sync", "add_message async", "should_absorb_content",
              "get_recent_images_for_chat", "absorb_content_into_memory"}

\* the steps that wait for the network: a synchronous upload, a dispatch to
\* the memory agents
NetworkSteps == {"upload", "dispatch"}

\* add_message that uploads under the lock
StepsOfUploadingUnderLock(op) ==
    CASE op = "add_message sync" -> << "acquire", "upload", "append", "release" >>
      [] op = "add_message async" -> << "acquire", "append", "release" >>
      [] op \in {"should_absorb_content", "get_recent_images_for_chat"} ->
             << "acquire", "remove", "release", "acquire", "scan", "release" >>
      [] op = "absorb_content_into_memory" ->
             << "acquire", "trim", "release", "dispatch" >>

\* the steps of each operation in the order of the code.  add_message, lines
\* 53-91: upload_file (synchronous) or upload_file_async, then the append
\* under the lock.  should_absorb_content, lines 178-235, and
\* get_recent_images_for_chat, lines 251-282: the removal of the timed out
\* items under the lock (lines 151-173), then the scan under the lock, with
\* try_resolve_upload, which does not wait.  absorb_content_into_memory,
\* lines 293-347 and 417-424: the cut under the lock, then the dispatch
StepsOf(op) ==
    CASE op = "add_message sync" -> << "upload", "acquire", "append", "release" >>
      [] op = "add_message async" -> << "acquire", "append", "release" >>
      [] op \in {"should_absorb_content", "get_recent_images_for_chat"} ->
             << "acquire", "remove", "release", "acquire", "scan", "release" >>
      [] op = "absorb_content_into_memory" ->
             << "acquire", "trim", "release", "dispatch" >>

IdleOp == [op |-> "none", at |-> 0]

InitLock ==
    /\ messages_lock = 0
    /\ running_op = [t \in LockThreads |-> IdleOp]
    /\ network_call = [t \in LockThreads |-> "none"]

\* the step that thread t is at
StepAt(t) == StepsOf(running_op[t].op)[running_op[t].at]

AdvanceOp(t) ==
    running_op' = [running_op EXCEPT ![t] =
                      IF @.at = Len(StepsOf(@.op)) THEN IdleOp
                      ELSE [op |-> @.op, at |-> @.at + 1]]

\* a thread calls an operation of the accumulator
CallOp(t, op) ==
    /\ running_op[t] = IdleOp
    /\ running_op' = [running_op EXCEPT ![t] = [op |-> op, at |-> 1]]
    /\ UNCHANGED << messages_lock, network_call, OutsideLock >>

\* with self._temporary_messages_lock: the thread waits until the lock is free
AcquireMessagesLock(t) ==
    /\ running_op[t] # IdleOp
    /\ StepAt(t) = "acquire"
    /\ messages_lock = 0
    /\ messages_lock' = t
    /\ AdvanceOp(t)
    /\ UNCHANGED << network_call, OutsideLock >>

\* the end of the with block
ReleaseMessagesLock(t) ==
    /\ running_op[t] # IdleOp
    /\ StepAt(t) = "release"
    /\ messages_lock' = 0
    /\ AdvanceOp(t)
    /\ UNCHANGED << network_call, OutsideLock >>

\* a step on the buffer that waits for nothing
LocalStep(t) ==
    /\ running_op[t] # IdleOp
    /\ StepAt(t) \in {"append", "remove", "scan", "trim"}
    /\ AdvanceOp(t)
    /\ UNCHANGED << messages_lock, network_call, OutsideLock >>

\* the upload or the dispatch begins
NetworkCallBegins(t) ==
    /\ running_op[t] # IdleOp
    /\ StepAt(t) \in NetworkSteps
    /\ network_call[t] = "none"
    /\ network_call' = [network_call EXCEPT ![t] = StepAt(t)]
    /\ UNCHANGED << messages_lock, running_op, OutsideLock >>

\* the upload or the dispatch ends
NetworkCallEnds(t) ==
    /\ network_call[t] # "none"
    /\ network_call' = [network_call EXCEPT ![t] = "none"]
    /\ AdvanceOp(t)
    /\ UNCHANGED << messages_lock, OutsideLock >>

NextLock ==
    \/ \E t \in LockThreads, op \in LockedOps : CallOp(t, op)
    \/ \E t \in LockThreads : AcquireMessagesLock(t)
    \/ \E t \in LockThreads : ReleaseMessagesLock(t)
    \/ \E t \in LockThreads : LocalStep(t)
    \/ \E t \in LockThreads : NetworkCallBegins(t)
    \/ \E t \in LockThreads : NetworkCallEnds(t)

(* ------------- the conversation in absorb_content_into_memory ----------- *)
\* the snippets are numbered in the order in which they are recorded
Snippets == 1..MaxSnippets

InitConversation ==
    /\ conversation_pc = "idle"
    /\ user_message_added = FALSE
    /\ included = [s \in Snippets |-> 0]
    /\ next_snippet = 0

\* a chat request ends with a parsed reply, on its own thread:
\* add_user_conversation takes no lock
AddUserConversation ==
    /\ next_snippet < MaxSnippets
    /\ next_snippet' = next_snippet + 1
    /\ temporary_user_messages' =
           add_user_conversation(temporary_user_messages, next_snippet + 1)
    /\ UNCHANGED << last_chat, conversation_pc, user_message_added, included,
                    OutsideConversation >>

\* _add_user_conversation_to_message as far as line 535: the text of the
\* prompt is built from the snippets of the last batch, when there are any
ReadUserConversation ==
    /\ conversation_pc = "idle"
    /\ LET batch == temporary_user_messages[Len(temporary_user_messages)]
       IN  IF Len(batch) > 0
           THEN /\ included' = [s \in Snippets |->
                                   IF s \in Range(batch) THEN included[s] + 1
                                   ELSE included[s]]
                /\ conversation_pc' = "read"
           ELSE /\ conversation_pc' = "dispatch"
                /\ UNCHANGED included
    /\ UNCHANGED << ReplyVars, user_message_added, next_snippet, OutsideConversation >>

\* lines 537-538: self.temporary_user_messages.append([])
AppendBatch ==
    /\ conversation_pc = "read"
    /\ temporary_user_messages' = Append(temporary_user_messages, << >>)
    /\ user_message_added' = TRUE
    /\ conversation_pc' = "dispatch"
    /\ UNCHANGED << last_chat, included, next_snippet, OutsideConversation >>

\* the end of _cleanup_processed_content, lines 634-636
PopBatch(batches, added) ==
    IF added /\ Len(batches) > 1 THEN Tail(batches) ELSE batches

\* the dispatch returns and _cleanup_processed_content runs, lines 417-444
CleanupUserMessages ==
    /\ conversation_pc = "dispatch"
    /\ temporary_user_messages' = PopBatch(temporary_user_messages, user_message_added)
    /\ user_message_added' = FALSE
    /\ conversation_pc' = "idle"
    /\ UNCHANGED << last_chat, included, next_snippet, OutsideConversation >>

\* the dispatch raises and absorb_content_into_memory ends at line 420 or
\* 423, without the cleanup
DispatchRaises ==
    /\ conversation_pc = "dispatch"
    /\ user_message_added' = FALSE
    /\ conversation_pc' = "idle"
    /\ UNCHANGED << ReplyVars, included, next_snippet, OutsideConversation >>

NextConversation ==
    \/ AddUserConversation
    \/ ReadUserConversation
    \/ AppendBatch
    \/ CleanupUserMessages
    \/ DispatchRaises

(* ---------------------------- specification ---------------------------- *)
InitExt == InitDispatch /\ InitMapping /\ InitChat /\ InitWait /\ InitStartup /\ InitCloud /\ InitCore /\ InitStore /\ InitReply /\ InitFanout /\ InitModel /\ InitRetry /\ InitTrigger /\ InitReflexion /\ InitLock /\ InitConversation

Init == InitAccumulator /\ InitQueue /\ InitExt

Next ==
    \/ \E n \in 0..MaxImgs, text \in BOOLEAN :
           \/ AddLocal(n, text)
           \/ \E delete_after_upload \in BOOLEAN :
                  AddAsync(n, text, delete_after_upload)
    \/ \E n \in 1..MaxImgs : AddSyncBegin(n)
    \/ \E text \in BOOLEAN : AddSyncResolved(text)
    \/ AddSyncRaises
    \/ \E force_absorb_content \in BOOLEAN : ShouldFlush(force_absorb_content)
    \/ AbsorbReady
    \/ AbsorbForced
    \/ AbsorbFinish
    \/ JanitorFind
    \/ JanitorRemove
    \/ \E u \in UploadIds, result \in {"ok", "err"} : UploadWorker(u, result)
    \/ \E t \in file_cleaners : CleanerStep(t)
    \/ \E u \in UploadIds : Tick(u)

Spec == Init /\ [][Next]_vars

\* Time passes, and _detect_and_cleanup_timed_out_uploads is run again and
\* again: every later send_message runs it, for a memorized observation
\* inside should_absorb_content and for a chat request inside
\* get_recent_images_for_chat.
\* The run is that of a model that needs uploads, fed through the
\* asynchronous path; the text of an observation plays no part in what
\* becomes of its uploads, so here only an observation without images
\* carries text.
InitFair == Init /\ needs_upload

NextFair ==
    \/ \E n \in 0..MaxImgs, delete_after_upload \in BOOLEAN :
           AddAsync(n, n = 0, delete_after_upload)
    \/ \E force_absorb_content \in BOOLEAN : ShouldFlush(force_absorb_content)
    \/ AbsorbReady
    \/ AbsorbForced
    \/ AbsorbFinish
    \/ JanitorFind
    \/ JanitorRemove
    \/ \E u \in UploadIds, result \in {"ok", "err"} : UploadWorker(u, result)
    \/ \E t \in file_cleaners : CleanerStep(t)
    \/ \E u \in UploadIds : Tick(u)

FairSpec ==
    /\ InitFair
    /\ [][NextFair]_vars
    /\ WF_vars(\E u \in UploadIds : Tick(u))
    /\ WF_vars(JanitorFind)
    /\ WF_vars(JanitorRemove)

\* the message queue of agent.py, on its own
SpecQueue == Init /\ [][NextQueue]_vars

\* the dispatch of flushes to the memory agents, on its own
SpecDispatch == Init /\ [][NextDispatch]_vars

\* the cloud file mappings, on their own
SpecMapping == Init /\ [][NextMapping]_vars

\* the chat requests that read the buffer between the observations
SpecChat == Init /\ [][NextChat]_vars

\* wait_for_upload next to the threads that call try_resolve_upload
SpecWait == Init /\ [][NextWait]_vars

\* the start of the agent wrapper over what earlier runs left behind
SpecStartup == Init /\ [][NextStartup]_vars

\* the table of the images in the cloud, its writers and the lock
SpecCloud == Init /\ [][NextCloud]_vars

\* the core memory tools called one after the other
SpecCore == Init /\ [][NextCore]_vars

\* the memory managers and the tools that call them
SpecStore == Init /\ [][NextStore]_vars

\* the episodic memory tools
SpecEpisodic == Init /\ [][NextEpisodic]_vars

\* the update tools of the semantic, procedural and resource memories and
\* of the knowledge vault
SpecUpdate == Init /\ [][NextUpdate]_vars

\* the chat agent's replies
SpecReply == Init /\ [][NextReply]_vars

\* chat requests while observations wait in the buffer
SpecChatTurn == Init /\ [][NextChatTurn]_vars

\* chat replies are recorded while flushes put the conversation into their prompts
SpecConversation == Init /\ [][NextConversation]_vars

\* one flush after the other sent to the six memory agents
SpecFanout == Init /\ [][NextFanout]_vars

\* the choice of the memory model
SpecModel == Init /\ [][NextModel]_vars

\* the upload worker over the jobs of its queue
SpecRetry == Init /\ [][NextRetry]_vars

\* the worker thread keeps running: it takes the jobs of the queue and makes
\* its attempts.  Nothing makes an upload call return
FairSpecRetry ==
    /\ Init
    /\ [][NextRetry]_vars
    /\ WF_vars(\E existing, compressed \in BOOLEAN : TakeJob(existing, compressed))
    /\ WF_vars(\E outcome \in {"file_ref", "raises", "timeout"} : UploadAttempt(outcome))

\* the meta memory agent's calls of trigger_memory_update
SpecTrigger == Init /\ [][NextTrigger]_vars

\* the runs of reflextion_on_memory
SpecReflexion == Init /\ [][NextReflexion]_vars

\* the threads that call the accumulator and its lock
SpecLock == Init /\ [][NextLock]_vars

(* ------------------------------ properties ----------------------------- *)
\* the step of send_message that runs should_absorb_content
ShouldFlushReturns == pc = "added" /\ pc' # "added"

\* the items of buf from the first one on that has an unresolved placeholder
BehindUnresolved(buf, res) ==
    {buf[m].id : m \in {k \in DOMAIN buf : \E i \in 1..k : Unresolved(buf[i], res)}}

\* C1: should_absorb_content never returns an observation located at or
\* after the first buffer entry that still has an unresolved upload
\* placeholder: the list it returns is drawn from the prefix of the buffer
\* whose placeholders are all resolved.
C1_ReadyWithinResolvedPrefix ==
    [][ShouldFlushReturns =>
          Range(Ids(call'.ready))
              \cap BehindUnresolved(temporary_messages', upload_results) = {}]_vars

\* should_absorb_content has returned a ready list while the item behind
\* the ready ones has an unresolved placeholder
C1_Witness ==
    /\ pc = "absorb"
    /\ call.ready # << >>
    /\ Len(temporary_messages) > Len(call.ready)
    /\ Ids(SubSeq(temporary_messages, 1, Len(call.ready))) = Ids(call.ready)
    /\ Unresolved(temporary_messages[Len(call.ready) + 1], upload_results)

\* C3: every batch handed to the memory agents by absorb_content_into_memory,
\* from a ready list or selected by the forced absorb, is in strict temporal
\* order and holds no observation that sits behind a buffer entry whose
\* upload is still pending.
StrictlyIncreasing(s) == \A i, j \in DOMAIN s : i < j => s[i] < s[j]

C3_BatchInOrderBehindNoPending ==
    [][(pc = "absorb" /\ pc' = "dispatch") =>
          /\ StrictlyIncreasing(Ids(call'.ready))
          /\ \A i \in DOMAIN temporary_messages' :
                 Unresolved(temporary_messages'[i], upload_results') =>
                     \A k \in DOMAIN call'.ready :
                         call'.ready[k].id < temporary_messages'[i].id]_vars

\* C4: for every upload placeholder at most one of the outcomes resolved
\* with a file reference, resolved with an error, timed out and evicted
\* ever occurs.
C4_AtMostOneOutcome ==
    \A u \in UploadIds : Cardinality(outcomes[u]) <= 1

\* the placeholders of an item
PlaceholdersOf(item) ==
    {item.image_uris[j].u :
        j \in {k \in DOMAIN item.image_uris : IsPending(item.image_uris[k])}}

\* C5: a failed or never-completing upload never blocks the accumulator for
\* ever, every observation unrelated to the failed upload is eventually
\* returned by should_absorb_content and flushed.  An item is returned only
\* once each of its placeholders resolves and is evicted only through a
\* tracked start time, so in a run with a failed upload every buffered item
\* whose own uploads all succeeded must have each placeholder either
\* resolvable or still tracked: otherwise it stays in the buffer for ever,
\* with everything behind it.
C5_UnrelatedItemsNotBlocked ==
    (\E f \in UploadIds : "error" \in outcomes[f]) =>
        \A i \in DOMAIN temporary_messages :
            (\A u \in PlaceholdersOf(temporary_messages[i]) :
                 "success" \in outcomes[u]) =>
                \A u \in PlaceholdersOf(temporary_messages[i]) :
                    u \in DOMAIN upload_results \/ u \in DOMAIN upload_start_times

\* a run of _detect_and_cleanup_timed_out_uploads ends: inside
\* should_absorb_content, or as cleanup_timed_out_uploads
DetectTimeoutsInShouldFlush == ShouldFlushReturns /\ needs_upload
DetectTimeoutsInJanitor == janitor.busy /\ ~janitor'.busy

\* the placeholders that the ending run found pending for longer than
\* upload_timeout_seconds
FoundTimedOut ==
    IF DetectTimeoutsInJanitor THEN janitor.timed_out
    ELSE {u \in DOMAIN upload_start_times : upload_start_times[u] = LongAgo}

\* C6: after _detect_and_cleanup_timed_out_uploads has run, every buffer
\* entry that held a placeholder pending for longer than
\* upload_timeout_seconds is gone from the buffer and the start time of that
\* placeholder is gone from upload_start_times.
C6_TimedOutEntriesRemoved ==
    [][(DetectTimeoutsInShouldFlush \/ DetectTimeoutsInJanitor) =>
          \A u \in FoundTimedOut :
              /\ u \notin DOMAIN upload_start_times'
              /\ \A i \in DOMAIN temporary_messages :
                     u \in PlaceholdersOf(temporary_messages[i]) =>
                         temporary_messages[i].id
                             \notin Range(Ids(temporary_messages'))]_vars

\* an entry was evicted for a placeholder that is no longer tracked
C6_Witness ==
    \E u \in UploadIds :
        /\ "timeout" \in outcomes[u]
        /\ u \notin DOMAIN upload_start_times
        /\ \A i \in DOMAIN temporary_messages :
               u \notin PlaceholdersOf(temporary_messages[i])

\* the buffer holds an item with the placeholder of upload u
InBuffer(u) ==
    \E i \in DOMAIN temporary_messages : u \in PlaceholdersOf(temporary_messages[i])

\* the uploads whose images are part of a batch
UploadsOf(batch) ==
    UNION {{batch[k].image_uris[j].u :
               j \in {m \in DOMAIN batch[k].image_uris :
                         batch[k].image_uris[m].kind \in {"file", "placeholder"}}} :
           k \in DOMAIN batch}

C8_FlushRemovesExactlyReady ==
    [][(pc = "absorb" /\ call.ready # << >> /\ pc' # "absorb") =>
          Range(Ids(temporary_messages)) \ Range(Ids(temporary_messages'))
              = Range(Ids(call.ready))]_vars

\* C9: the observations of a flush's output appear in the order in which
\* they were added to the buffer: the ready list, the screenshots section
\* and the text section of the message are in arrival order.
C9_FlushInArrivalOrder ==
    pc = "dispatch" =>
        /\ StrictlyIncreasing(Ids(call.ready))
        /\ StrictlyIncreasing(call.images)
        /\ StrictlyIncreasing(call.texts)

\* a message with several screenshots and some text is being dispatched
C9_Witness ==
    /\ pc = "dispatch"
    /\ Len(call.images) >= 2
    /\ Len(call.texts) >= 1

\* the longest prefix of buf without an unresolved placeholder
ResolvedPrefix(buf, res) ==
    SubSeq(buf, 1,
           Cardinality({m \in DOMAIN buf : \A i \in 1..m : ~Unresolved(buf[i], res)}))

\* the item as should_absorb_content returns it: each placeholder replaced
\* by the file reference of its upload
WithFileRefs(item) ==
    [item EXCEPT !.image_uris =
        [j \in DOMAIN item.image_uris |->
            IF IsPending(item.image_uris[j])
            THEN FileRef(item.image_uris[j].u) ELSE item.image_uris[j]]]

\* C10: should_absorb_content returns the whole fully resolved prefix of the
\* buffer when that prefix has at least TEMPORARY_MESSAGE_LIMIT entries, and
\* the empty list otherwise.
C10_WholePrefixOrNothing ==
    [][ShouldFlushReturns =>
          LET prefix == ResolvedPrefix(temporary_messages', upload_results)
          IN  call'.ready =
                  IF Len(prefix) >= TEMPORARY_MESSAGE_LIMIT
                  THEN [i \in DOMAIN prefix |-> WithFileRefs(prefix[i])]
                  ELSE << >>]_vars

\* should_absorb_content has returned exactly TEMPORARY_MESSAGE_LIMIT
\* observations, each with uploaded images
C10_Witness ==
    /\ pc = "absorb"
    /\ Len(call.ready) = TEMPORARY_MESSAGE_LIMIT
    /\ \A i \in DOMAIN call.ready :
           /\ call.ready[i].image_uris # << >>
           /\ \A j \in DOMAIN call.ready[i].image_uris :
                  call.ready[i].image_uris[j].kind = "file"

\* C2: for two completed requests a and b of the same agent type, a put
\* into the queue before b, the client call of b does not start before the
\* client call of a has finished, whatever the interleaving of the
\* submitting threads.
C2_SameTypeInQueueOrder ==
    \A p \in overtaken : ~(p[1] \in completed /\ p[2] \in completed)

\* the request of thread t, as it stands in the queue
RequestOf(t) == message_queue[IndexOf(message_queue, qcall[t].uuid)]

\* every other request that is or comes into the queue during the step is
\* of another agent type than the request of thread t
OnlyOtherTypesAround(t) ==
    \A i \in DOMAIN message_queue' :
        message_queue'[i].uuid # qcall[t].uuid =>
            message_queue'[i].type # RequestOf(t).type

\* C11: a request is never delayed by requests of another agent type: when
\* no earlier request of its own type is unfinished, the request is eligible
\* to start, however many requests of other types are queued or running.
C11_OtherTypesNeverBlock ==
    [][\A t \in Threads :
          (/\ qpc[t] = "copying"
           /\ qpc'[t] # "copying"
           /\ qcall[t].uuid \in Uuids(message_queue)
           /\ OnlyOtherTypesAround(t)) => qpc'[t] = "start"]_vars

\* C12: when the accumulator emits two flushes one after the other, from
\* one thread or from two, every memory agent type processes the request of
\* the earlier flush before the request of the later one.
C12_FlushesProcessedInEmitOrder ==
    \A a \in MemoryAgentTypes : StrictlyIncreasing(processed[a])

\* C13: after a flush completes, the cloud file mapping of every image of
\* the flushed observations has status processed.
C13_FlushedImagesProcessed ==
    \A u \in flushed_uploads :
        \E id \in {FileName(u), FileUri(u)} \cap DOMAIN cloud_file_mapping :
            cloud_file_mapping[id] = "processed"
\* the images of buf that are resolved, oldest first: the references that
\* are no placeholders and the placeholders whose upload has succeeded
RECURSIVE ResolvedImages(_, _)
ResolvedImages(buf, res) ==
    IF buf = << >> THEN << >>
    ELSE LET imgs == Head(buf).image_uris
             Resolved(ref) == \/ ~IsPending(ref)
                              \/ ref.u \in DOMAIN res /\ res[ref.u] = "ok"
             Ref(ref) == IF IsPending(ref) THEN FileRef(ref.u) ELSE ref
             kept == SelectSeq(imgs, Resolved)
         IN  [j \in DOMAIN kept |-> Ref(kept[j])] \o ResolvedImages(Tail(buf), res)

LastImages(s, n) == SubSeq(s, IF Len(s) > n THEN Len(s) - n + 1 ELSE 1, Len(s))

\* C14: get_recent_images_for_chat returns at most TEMPORARY_MESSAGE_LIMIT
\* images, all of them resolved, and they are the most recent resolved
\* images of the buffer; images whose upload is still pending are skipped.
C14_MostRecentResolvedImages ==
    [][GetRecentImagesForChat =>
          most_recent_images' =
              LastImages(ResolvedImages(temporary_messages', upload_results),
                         TEMPORARY_MESSAGE_LIMIT)]_vars
\* C15: wait_for_upload returns the file reference when the upload
\* succeeded, raises the upload's own error when the upload failed, and
\* raises TimeoutError only when no result was published within the
\* timeout, whatever try_resolve_upload calls other threads make on the same
\* placeholder in between.
C15_WaitReportsTheUpload ==
    \A u \in UploadIds :
        /\ waiters[u].state = "returned" => waiters[u].published = {"success"}
        /\ waiters[u].state = "raised" => waiters[u].published = {"error"}
        /\ waiters[u].state = "timeout" => waiters[u].published = {}
\* C16: after _initialize_gemini_components has initialized the blob
\* provider's components, every cloud file mapping that remains in the Store
\* refers to a blob that is in the blob store's listing.
C16_MappingsWithinBlobStore ==
    startup = "ok" =>
        \A id \in DOMAIN cloud_file_mapping : BlobOf(id) \in blob_store

\* the components were initialized over a Store that held the mapping of a
\* blob that is gone and the mapping of a blob that is still there
C16_Witness ==
    /\ startup = "ok"
    /\ \E id \in mappings_at_startup : BlobOf(id) \notin blob_store
    /\ \E id \in mappings_at_startup : BlobOf(id) \in blob_store
\* the entries that the last call of clear_old_screenshots removed
Removed == (DOMAIN last_clear.before) \ (DOMAIN last_clear.after)

Excess(table) == Cardinality(DOMAIN table) - MAXIMUM_NUM_IMAGES_IN_CLOUD

C18_MutationsUnderLock ==
    [][/\ \A w \in Workers :
              (\E u \in UploadIds, create_time \in 1..MaxCreateTime :
                   InsertByWorker(w, u, create_time)) => lock_holder = w
       /\ \A t \in Senders :
              (/\ \E queue_length \in 0..MaxQueueLength :
                      ClearOldScreenshots(t, queue_length)
               /\ uri_to_create_time' # uri_to_create_time) => lock_holder = t]_vars
\* v is s without its leading and trailing whitespace: s is v between two
\* runs of whitespace, and v neither begins nor ends with whitespace
IsStripped(v, s) ==
    /\ \E i \in 0..Len(s) :
           /\ i + Len(v) <= Len(s)
           /\ SubSeq(s, i + 1, i + Len(v)) = v
           /\ \A k \in (1..i) \cup ((i + Len(v) + 1)..Len(s)) : s[k] \in Whitespace
    /\ v # << >> => v[1] \notin Whitespace /\ v[Len(v)] \notin Whitespace

\* C19: core_memory_append(L, c) leaves block L with a value exactly equal
\* to the old value followed by a newline and c, with leading and trailing
\* whitespace stripped.
C19_AppendAddsNewlineAndContent ==
    [][last_tool'.op = "append" =>
          LET label == last_tool'.label
              content == last_tool'.args[1]
          IN  IsStripped(core_memory'[label],
                         core_memory[label] \o << "\n" >> \o content)]_vars

\* an append has put content behind a value that was not empty
C19_Witness ==
    /\ last_tool.op = "append"
    /\ \E label \in Labels :
           /\ label = last_tool.label
           /\ Len(core_memory[label]) = 3
           /\ core_memory[label][2] = "\n"

\* the positions of s at which an occurrence of sub begins
Occurrences(s, sub) ==
    {i \in 1..(Len(s) - Len(sub) + 1) : SubSeq(s, i, i + Len(sub) - 1) = sub}

\* s.split(sub) for a sub that is not empty: the pieces of s between the
\* occurrences of sub, taken from the left
RECURSIVE Split(_, _)
Split(s, sub) ==
    IF Occurrences(s, sub) = {} THEN << s >>
    ELSE LET i == CHOOSE j \in Occurrences(s, sub) :
                      \A k \in Occurrences(s, sub) : j <= k
         IN  << SubSeq(s, 1, i - 1) >> \o Split(SubSeq(s, i + Len(sub), Len(s)), sub)

\* sep.join(pieces)
RECURSIVE Join(_, _)
Join(pieces, sep) ==
    IF Len(pieces) = 1 THEN pieces[1]
    ELSE pieces[1] \o sep \o Join(Tail(pieces), sep)

\* r is s with every occurrence of old replaced by new
IsReplaced(r, s, old, new) ==
    IF old # << >> THEN r = Join(Split(s, old), new)
    ELSE /\ Len(r) = Len(s) + (Len(s) + 1) * Len(new)
         /\ \A i \in 1..Len(s) : r[i * (Len(new) + 1)] = s[i]
         /\ \A k \in 0..Len(s), j \in 1..Len(new) : r[k * (Len(new) + 1) + j] = new[j]

\* C20: core_memory_replace(label, old, new) fails with an error and leaves
\* the value of the block unchanged whenever old is not an exact substring
\* of the current value of the block; otherwise the new value is the current
\* value with old replaced by new.
C20_ReplaceNeedsSubstring ==
    [][last_tool'.op = "replace" =>
          LET label == last_tool'.label
              old_content == last_tool'.args[1]
              new_content == last_tool'.args[2]
          IN  IF Occurrences(core_memory[label], old_content) = {}
                 /\ old_content # << >>
              THEN last_tool'.error /\ core_memory' = core_memory
              ELSE /\ ~last_tool'.error
                   /\ IsReplaced(core_memory'[label], core_memory[label],
                                 old_content, new_content)]_vars

\* a replace has failed on a block that holds a value
C20_Witness ==
    /\ last_tool.op = "replace"
    /\ last_tool.error
    /\ core_memory[last_tool.label] # << >>
\* C21: episodic_memory_replace(event_ids, new_items) ends with none of the
\* listed events in the store and all new items inserted; if a listed id
\* does not exist, it raises before any event has been deleted.
C21_ReplaceIsAllOrNothing ==
    [][(\E event_ids \in EventIdLists, new_items \in NewItemLists :
            EpisodicMemoryReplace(event_ids, new_items)) =>
          LET listed == Range(last_replace'.event_ids)
          IN  IF listed \subseteq RowIds(tables["episodic"])
              THEN /\ ~last_replace'.error
                   /\ listed \cap RowIds(tables'["episodic"]) = {}
                   /\ last_replace'.new_ids \subseteq RowIds(tables'["episodic"])
              ELSE /\ last_replace'.error
                   /\ tables' = tables]_vars

\* C22: a delete by id of a stored item ends without error and removes the
\* item, and no later search returns an item that was deleted; a delete by
\* id of an id that is not stored raises and leaves the store as it was.
C22_DeleteByIdRemovesOrRaises ==
    [][/\ last_delete'.called =>
            LET manager == last_delete'.manager
                id == last_delete'.id
            IN  IF id \in RowIds(tables[manager])
                THEN /\ ~last_delete'.error
                     /\ id \notin RowIds(tables'[manager])
                     /\ RowIds(tables'[manager]) = RowIds(tables[manager]) \ {id}
                ELSE /\ last_delete'.error
                     /\ tables' = tables
       /\ last_search'.called =>
            Range(last_search'.result) \cap deleted_ids' = {}]_vars

\* a search that finds an item after another item of the manager was deleted
C22_Witness ==
    /\ last_search.called
    /\ last_search.result # << >>
    /\ \E id \in deleted_ids : id < last_search.result[1]

\* C23: a string_match search whose query is the searched field of the item
\* inserted last returns that item within its first limit results, however
\* many other items match.
C23_InsertedItemIsFound ==
    last_search.called =>
        LET rows == tables[last_search.manager]
        IN  (rows # << >> /\ last_search.query = rows[Len(rows)].text) =>
                rows[Len(rows)].id \in Range(last_search.result)

\* C24: for every memory manager, a search with an empty query returns
\* exactly the limit items inserted last.
C24_EmptyQueryReturnsNewest ==
    (last_search.called /\ last_search.query = << >>) =>
        LET rows == tables[last_search.manager]
            newest == LastRows(rows, last_search.limit)
        IN  Range(last_search.result) = {newest[i].id : i \in DOMAIN newest}

\* C25: the chat send_message never raises for a failed LLM call or a
\* malformed reply: it returns ERROR_RESPONSE_FAILED or one of the other four
\* error tokens, or else the message argument of the reply's tool call.
C25_ChatNeverRaises ==
    last_chat.called =>
        /\ last_chat.raised = "none"
        /\ last_chat.returned \in ErrorTokens \cup {"hi"}

\* C28: absorb_content_into_memory removes the ready observations from the
\* buffer only after the dispatch to the memory agents has returned: while
\* the dispatch of a batch is under way, every observation of the batch is
\* still in the buffer.
C28_InBufferUntilDispatchReturns ==
    pc = "dispatch" =>
        Range(Ids(call.ready)) \subseteq Range(Ids(temporary_messages))

\* C26: a flush in direct mode dispatches the same message to all six memory
\* agents; a dispatch that fails neither keeps the other five dispatches
\* from running to completion nor aborts the flush.
C26_FailedDispatchAbortsNothing ==
    /\ fan_pc # "idle" => \A a \in memory_agent_types : sent[a] = fan_prompt
    /\ fan_pc \in {"returned", "raised"} =>
           \A a \in memory_agent_types : futures[a] \in DispatchOutcomes
    /\ fan_pc # "raised"

\* C27: set_memory_model(name) changes the memory model only when name is in
\* the allow-list; with any other name the memory model and the LLM configs
\* of the memory agents stay as they were.
C27_OnlyAllowedModelsAreSet ==
    [][last_set'.called =>
          /\ last_set'.new_model \notin ALLOWED_MEMORY_MODELS =>
                 /\ memory_model_name' = memory_model_name
                 /\ llm_config' = llm_config
          /\ (memory_model_name' # memory_model_name \/ llm_config' # llm_config) =>
                 /\ last_set'.new_model \in ALLOWED_MEMORY_MODELS
                 /\ memory_model_name' = last_set'.new_model]_vars

\* C29 as stated: for each job the compressed file is attempted at most 3
\* times, the original file is attempted only after all of those attempts
\* failed and then exactly once, and a job never has more than 4 attempts.
C29_AtMostFourAttempts ==
    \A j \in Jobs :
        /\ attempts[j].compressed <= max_retries
        /\ (attempts[j].compressed > 0 /\ attempts[j].original > 0) =>
               /\ attempts[j].compressed = max_retries
               /\ attempts[j].original = 1
        /\ attempts[j].compressed + attempts[j].original <= max_retries + 1

\* C29: for each job the compressed file is attempted at most 3 times, the
\* original file is attempted after them only when all 3 failed, and then at
\* most 3 times; the original file of a job without compressed file is
\* attempted at most 3 times; a job never has more than 6 attempts.
C29_AtMostThreeAttemptsPerFile ==
    \A j \in Jobs :
        /\ attempts[j].compressed <= max_retries
        /\ attempts[j].original <= max_retries
        /\ (attempts[j].compressed > 0 /\ attempts[j].original > 0) =>
               attempts[j].compressed = max_retries
        /\ attempts[j].compressed + attempts[j].original <= 2 * max_retries

\* a job whose three attempts at the compressed file and three attempts at
\* the original file all failed
C29_Witness ==
    \E j \in Jobs :
        /\ attempts[j].compressed = max_retries
        /\ attempts[j].original = max_retries
        /\ results[j] = << "exception" >>

\* C30: every job taken from the upload queue ends with exactly one result
\* stored under its uuid, even when an upload call never returns.
C30_EveryJobEndsWithOneResult ==
    \A j \in Jobs : (next_job >= j) ~> (Len(results[j]) = 1)

\* C31: trigger_memory_update(memory_types, instructions) sends exactly one
\* request to the agent of each named memory type, and the request for the
\* i-th type is the original prompt with only the i-th instruction appended.
C31_OneRequestPerTypeWithItsInstruction ==
    last_trigger.called =>
        \A i \in DOMAIN last_trigger.memory_types :
            LET agent_type == AgentTypeOf(last_trigger.memory_types[i])
                to_agent == {k \in DOMAIN last_trigger.requests :
                                last_trigger.requests[k].agent_type = agent_type}
                named == {k \in DOMAIN last_trigger.memory_types :
                             last_trigger.memory_types[k] = last_trigger.memory_types[i]}
            IN  Cardinality(named) = 1 =>
                    /\ Cardinality(to_agent) = 1
                    /\ \A k \in to_agent :
                           last_trigger.requests[k].message =
                               Append(OriginalPrompt, last_trigger.instructions[i])

\* C32: reflextion_on_memory runs its phases in the order redundancy,
\* conflict, pattern: while a dispatch of the conflict phase is under way
\* every dispatch of the redundancy phase has ended, and while a dispatch of
\* the pattern phase is under way the dispatch of the conflict phase has
\* ended.
C32_PhasesInOrder ==
    \A i \in calls_running :
        /\ ReflexionDispatches[i].phase = "conflict" =>
               \A k \in DispatchesOf("redundancy") :
                   k \notin calls_running /\ reflexion_results[k] # "none"
        /\ ReflexionDispatches[i].phase = "pattern" =>
               \A k \in DispatchesOf("redundancy") \cup DispatchesOf("conflict") :
                   k \notin calls_running /\ reflexion_results[k] # "none"

\* a dispatch of the pattern phase is under way after a dispatch of the
\* redundancy phase and the dispatch of the conflict phase ended with an error
C32_Witness ==
    /\ \E i \in calls_running : ReflexionDispatches[i].phase = "pattern"
    /\ \E k \in DispatchesOf("redundancy") : reflexion_results[k] = "Error"
    /\ \A k \in DispatchesOf("conflict") : reflexion_results[k] = "Error"

\* C33: _temporary_messages_lock is never held while an upload or a dispatch
\* of its holder is in progress, so an add_message that waits for the lock
\* never waits for the length of a network call of another operation.
C33_NoNetworkCallUnderLock ==
    \A t \in LockThreads :
        messages_lock = t => network_call[t] = "none"

\* one thread is in its dispatch while another thread holds the lock
C33_Witness ==
    \E t, u \in LockThreads :
        /\ t # u
        /\ messages_lock = t
        /\ network_call[u] = "dispatch"

\* C34: a request is removed from the message queue once its client call has
\* ended, whether the call returned or raised: a request of the queue that
\* has started belongs to a call that is still under way, or that has just
\* returned and is about to be deleted, so that no later request of its type
\* waits behind it for ever.
C34_EndedCallsLeaveTheQueue ==
    \A i \in DOMAIN message_queue :
        message_queue[i].started =>
            \E t \in Threads :
                /\ qpc[t] \in {"calling", "finished"}
                /\ qcall[t].uuid = message_queue[i].uuid

\* C35: once try_resolve_upload returns a file reference for a placeholder,
\* it returns the same reference for as long as the observation that holds
\* the placeholder is in the buffer: no step, the clearing of the result
\* table by _maybe_cleanup_old_results included, turns a resolved placeholder
\* of the buffer back into a pending one.
C35_ResolvedStaysResolved ==
    [][\A u \in UploadIds :
           (/\ InBuffer(u)
            /\ InBuffer(u)'
            /\ try_resolve_upload(Placeholder(u), upload_results).ref = FileRef(u))
           => try_resolve_upload(Placeholder(u), upload_results').ref = FileRef(u)]_vars

\* C36: semantic_memory_update, procedural_memory_update,
\* resource_memory_update and knowledge_vault_update are all-or-nothing in
\* old_ids: when one of the listed ids is not stored, the call raises, and
\* no item has been deleted and none inserted.
C36_UpdateIsAllOrNothing ==
    [][(/\ last_replace'.called
        /\ last_replace'.manager \in UpdateManagers
        /\ ~(Range(last_replace'.event_ids)
                \subseteq RowIds(tables[last_replace'.manager])))
       => /\ last_replace'.error
          /\ tables' = tables
          /\ next_item' = next_item]_vars

\* an update has raised whose first old id is stored and whose second is not
C36_Witness ==
    /\ last_replace.called
    /\ last_replace.manager \in UpdateManagers
    /\ last_replace.error
    /\ Len(last_replace.event_ids) = 2
    /\ last_replace.event_ids[1] \in RowIds(tables[last_replace.manager])
    /\ last_replace.event_ids[2] \notin RowIds(tables[last_replace.manager])
    /\ last_replace.new_ids # {}

\* C38: the reconciliation at startup deletes a cloud file mapping only if
\* its cloud file is absent from the blob store: when
\* _initialize_gemini_components returns True, every mapping whose blob is
\* still in the store has been kept.
C38_MappingsOfStoredBlobsKept ==
    [][(startup = "down" /\ startup' = "ok") =>
          \A id \in DOMAIN cloud_file_mapping :
              BlobOf(id) \in blob_store => id \in DOMAIN cloud_file_mapping']_vars

C37_EachSnippetInOnePrompt ==
    \A s \in 1..next_snippet :
        /\ included[s] <= 1
        /\ included[s] = 0 =>
               s \in Range(temporary_user_messages[Len(temporary_user_messages)])

====
